---------------------------- MODULE Spec2Model ----------------------------
(***************************************************************************)
(* Baseball-Statistics-II: the scraping / cleaning pipeline as state       *)
(* machines.  One group of variables per component:                        *)
(*   cur_*   SalaryDataCleaner.clean_currency          (salary_cleaning.py)*)
(* Python strings are TLA+ strings; a character is a string of length 1.   *)
(***************************************************************************)
EXTENDS Integers, Sequences, FiniteSets, TLC

VARIABLES
    cur_pc,      \* clean_currency: "call" before the call, "returned" after it
    cur_in,      \* its argument
    cur_out,     \* its result: an int, None, or the exception it raised
    cur_prev,    \* the int whose str() the argument is, None for a first call
    nm_in,       \* standardize_team_name: the raw name
    nm_salary,   \* SalaryDataCleaner.standardize_team_name(nm_in), PENDING before
    nm_data,     \* BaseballDataCleaner.standardize_team_name(nm_in), PENDING before
    cell_in,     \* standardize_cell_value: the cell
    cell_out,    \* its result, PENDING before the call
    tb_page,     \* get_all_tables: the page, [visible, comments]
    tb_timeout,  \* timeout_seconds
    tb_pc,       \* position in get_all_tables
    tb_elapsed,  \* time.time() - start_time
    tb_i,        \* index of the next table of the visible pass / next comment block
    tb_count,    \* comment_count
    tb_tables,   \* tables
    tb_result,   \* the returned mapping
    yr_max_time, \* scrape_year: max_time
    yr_pc,       \* position in scrape_year
    yr_elapsed,  \* time.time() - start_time
    yr_k,        \* index of the next entry of table_mapping
    yr_files,    \* results["files_created"]
    yr_result,   \* the returned dict, PENDING before the return
    mu_years,        \* scrape_multiple_years: years
    mu_pc,           \* position in scrape_multiple_years
    mu_i,            \* index of the current period, from 1
    mu_all_results,  \* all_results
    mu_failed_years, \* failed_years
    mu_driver,       \* self.driver: "live" or "none"
    mu_interrupts,   \* history: user interrupts delivered so far
    mu_int_at,       \* history: the period the first interrupt arrived in, 0 if none
    mu_snapshot,     \* history: all_results when the first interrupt arrived
    mu_started,      \* history: the number of periods started
    mu_raised,       \* history: the years whose period raised an exception
    mu_reset_failed, \* history: a browser reset of the exception handler failed
    pay_df,          \* identify_payroll_column: the table
    pay_team_col,    \* the team column clean_dataframe passes to it
    pay_out,         \* its return value
    sl_year,         \* process_file: the year
    sl_file,         \* Salaries_{year}.csv: a table or UNREADABLE
    sl_calls,        \* calls of process_file made on the file
    sl_result,       \* the (success, row_count) of the last call
    sl_inferred,     \* history: the last call ran the column inference
    cl_df,           \* BaseballScraper.clean_dataframe: the scraped table, or None
    cl_pc,           \* "call" before the call, "returned" after it
    cl_out,          \* its return value
    dc_df,           \* BaseballDataCleaner.clean_dataframe: df
    dc_pc,           \* "call" before the call, "returned" after it
    dc_out           \* df_clean as returned

curVars == <<cur_pc, cur_in, cur_out, cur_prev>>
nmVars == <<nm_in, nm_salary, nm_data>>
cellVars == <<cell_in, cell_out>>
tbVars == <<tb_page, tb_timeout, tb_pc, tb_elapsed, tb_i, tb_count, tb_tables, tb_result>>
yrVars == <<yr_max_time, yr_pc, yr_elapsed, yr_k, yr_files, yr_result>>
muHistory == <<mu_interrupts, mu_int_at, mu_snapshot>>
muVars == <<mu_years, mu_pc, mu_i, mu_all_results, mu_failed_years, mu_driver,
            muHistory, mu_started, mu_raised, mu_reset_failed>>
payVars == <<pay_df, pay_team_col, pay_out>>
slVars == <<sl_year, sl_file, sl_calls, sl_result, sl_inferred>>
clVars == <<cl_df, cl_pc, cl_out>>
dcVars == <<dc_df, dc_pc, dc_out>>
vars == <<curVars, nmVars, cellVars, tbVars, yrVars, muVars, payVars, slVars, clVars, dcVars>>

\* what each operation leaves alone: the state of the other operations
curOthers == <<nmVars, cellVars, tbVars, yrVars, muVars, payVars, slVars, clVars, dcVars>>
nmOthers == <<curVars, cellVars, tbVars, yrVars, muVars, payVars, slVars, clVars, dcVars>>
cellOthers == <<curVars, nmVars, tbVars, yrVars, muVars, payVars, slVars, clVars, dcVars>>
tbOthers == <<curVars, nmVars, cellVars, yrVars, muVars, payVars, slVars, clVars, dcVars>>
yrOthers == <<curVars, nmVars, cellVars, muVars, payVars, slVars, clVars, dcVars>>
muOthers == <<curVars, nmVars, cellVars, tbVars, yrVars, payVars, slVars, clVars, dcVars>>
payOthers == <<curVars, nmVars, cellVars, tbVars, yrVars, muVars, slVars, clVars, dcVars>>
slOthers == <<curVars, nmVars, cellVars, tbVars, yrVars, muVars, payVars, clVars, dcVars>>
clOthers == <<curVars, nmVars, cellVars, tbVars, yrVars, muVars, payVars, slVars, dcVars>>
dcOthers == <<curVars, nmVars, cellVars, tbVars, yrVars, muVars, payVars, slVars, clVars>>

(***************************************************************************)
(* Python str helpers                                                      *)
(***************************************************************************)
Char(s, i) == SubSeq(s, i, i)

UPPERCASE == "ABCDEFGHIJKLMNOPQRSTUVWXYZ"
LOWERCASE == "abcdefghijklmnopqrstuvwxyz"
DIGITS == "0123456789"

\* 0 when c does not occur in alphabet, else its 1-based position
IndexIn(c, alphabet) ==
    IF \E i \in 1..Len(alphabet) : Char(alphabet, i) = c
    THEN CHOOSE i \in 1..Len(alphabet) : Char(alphabet, i) = c
    ELSE 0

IsDigit(c) == IndexIn(c, DIGITS) > 0
DigitVal(c) == IndexIn(c, DIGITS) - 1
IsLetter(c) == IndexIn(c, UPPERCASE) > 0 \/ IndexIn(c, LOWERCASE) > 0
\* regex \w
IsWordChar(c) == IsLetter(c) \/ IsDigit(c) \/ c = "_"

LowerChar(c) == IF IndexIn(c, UPPERCASE) > 0 THEN Char(LOWERCASE, IndexIn(c, UPPERCASE)) ELSE c
UpperChar(c) == IF IndexIn(c, LOWERCASE) > 0 THEN Char(UPPERCASE, IndexIn(c, LOWERCASE)) ELSE c

RECURSIVE Lower(_)
Lower(s) == IF s = "" THEN "" ELSE LowerChar(Head(s)) \o Lower(Tail(s))

RECURSIVE Upper(_)
Upper(s) == IF s = "" THEN "" ELSE UpperChar(Head(s)) \o Upper(Tail(s))

\* str.strip(): the only whitespace of the modelled alphabet is the blank
RECURSIVE LStrip(_)
LStrip(s) == IF s # "" /\ Head(s) = " " THEN LStrip(Tail(s)) ELSE s

RECURSIVE RStrip(_)
RStrip(s) ==
    IF s # "" /\ Char(s, Len(s)) = " " THEN RStrip(SubSeq(s, 1, Len(s) - 1)) ELSE s

Strip(s) == RStrip(LStrip(s))

StartsWith(s, p) == Len(p) <= Len(s) /\ SubSeq(s, 1, Len(p)) = p
EndsWith(s, p) == Len(p) <= Len(s) /\ SubSeq(s, Len(s) - Len(p) + 1, Len(s)) = p

\* `sub in s`
Contains(s, sub) ==
    \E i \in 1..(Len(s) - Len(sub) + 1) : SubSeq(s, i, i + Len(sub) - 1) = sub

\* str.replace(old, new), old non-empty: leftmost, non-overlapping
RECURSIVE Replace(_, _, _)
Replace(s, old, new) ==
    IF Len(s) < Len(old) THEN s
    ELSE IF StartsWith(s, old)
         THEN new \o Replace(SubSeq(s, Len(old) + 1, Len(s)), old, new)
         ELSE Head(s) \o Replace(Tail(s), old, new)

(***************************************************************************)
(* Python float: IEEE-754 binary64, round-half-even.  A natural number is  *)
(* a sequence of limbs base 1024, least significant first; a finite        *)
(* double >= 0 is [m |-> limbs of an integer up to 2^53, f |-> number of   *)
(* its bits that lie after the binary point (negative: a left shift)].     *)
(***************************************************************************)
MANT_BITS == 53
LIMB == 1024
LIMB_BITS == 10

RECURSIVE Pow10(_)
Pow10(k) == IF k = 0 THEN 1 ELSE 10 * Pow10(k - 1)

RECURSIVE Pow2(_)
Pow2(k) == IF k = 0 THEN 1 ELSE 2 * Pow2(k - 1)

Reverse(q) == [i \in 1..Len(q) |-> q[Len(q) + 1 - i]]
Zeros(n) == [i \in 1..n |-> 0]

\* bit i (0 = least significant) of the limbs m
BitAt(m, i) ==
    IF i < 0 \/ i \div LIMB_BITS + 1 > Len(m) THEN 0
    ELSE (m[i \div LIMB_BITS + 1] \div Pow2(i % LIMB_BITS)) % 2

BitLen(m) ==
    LET ones == {i \in 0..(LIMB_BITS * Len(m) - 1) : BitAt(m, i) = 1}
    IN  IF ones = {} THEN 0 ELSE 1 + (CHOOSE i \in ones : \A j \in ones : j <= i)

\* the limb made of bits from, from + 1, ... of m
RECURSIVE LimbFrom(_, _, _)
LimbFrom(m, from, b) ==
    IF b = LIMB_BITS THEN 0 ELSE BitAt(m, from + b) * Pow2(b) + LimbFrom(m, from, b + 1)

\* m shifted right by s bits (left by -s), as n limbs
ShiftRight(m, s, n) == [j \in 1..n |-> LimbFrom(m, LIMB_BITS * (j - 1) + s, 0)]

RECURSIVE IncLimbs(_)
IncLimbs(m) ==
    IF m = <<>> THEN <<1>>
    ELSE IF Head(m) + 1 < LIMB THEN <<Head(m) + 1>> \o Tail(m)
    ELSE <<0>> \o IncLimbs(Tail(m))

\* limbs times a small integer c, plus carry (both below 2^20)
RECURSIVE MulLimbs(_, _, _)
MulLimbs(m, c, carry) ==
    IF m = <<>>
    THEN (IF carry = 0 THEN <<>> ELSE <<carry % LIMB>> \o MulLimbs(<<>>, c, carry \div LIMB))
    ELSE <<(Head(m) * c + carry) % LIMB>> \o MulLimbs(Tail(m), c, (Head(m) * c + carry) \div LIMB)

\* long division of limbs given most significant first by d <= 10^6, with
\* incoming remainder r < d; the quotient is most significant first too
RECURSIVE DivLimbs(_, _, _)
DivLimbs(msf, d, r) ==
    IF msf = <<>> THEN [q |-> <<>>, rem |-> r]
    ELSE LET more == DivLimbs(Tail(msf), d, (r * LIMB + Head(msf)) % d)
         IN  [q |-> <<(r * LIMB + Head(msf)) \div d>> \o more.q, rem |-> more.rem]

RECURSIVE IntOfLimbs(_)
IntOfLimbs(m) == IF m = <<>> THEN 0 ELSE Head(m) + LIMB * IntOfLimbs(Tail(m))

\* the integer m with f fractional bits, plus a sticky flag for what lies
\* beyond its last bit, rounded to the nearest double, ties to even
RoundToDouble(m, f, sticky) ==
    LET drop == BitLen(m) - MANT_BITS
        kept == ShiftRight(m, drop, 6)
        guard == BitAt(m, drop - 1)
        rest == sticky \/ \E i \in 0..(drop - 2) : BitAt(m, i) = 1
        up == guard = 1 /\ (rest \/ BitAt(m, drop) = 1)
    IN  IF drop <= 0 THEN [m |-> m, f |-> f]
        ELSE [m |-> IF up THEN IncLimbs(kept) ELSE kept, f |-> f - drop]

FRAC_LIMBS == 8

\* the double nearest to n/d, n in limbs and d <= 10^6 (Python's float() of a
\* decimal literal is correctly rounded); 80 fractional bits leave at least
\* 60 significant ones to round from
DoubleOfRatio(n, d) ==
    LET dv == DivLimbs(Reverse(n) \o Zeros(FRAC_LIMBS), d, 0)
    IN  RoundToDouble(Reverse(dv.q), LIMB_BITS * FRAC_LIMBS, dv.rem # 0)

\* x * c in double arithmetic: the exact product, rounded once
DoubleTimes(x, c) == RoundToDouble(MulLimbs(x.m, c, 0), x.f, FALSE)

INT_LIMBS == 8

\* int(x) for a finite double x >= 0: truncation, as limbs
DoubleTrunc(x) == ShiftRight(x.m, x.f, INT_LIMBS)

(***************************************************************************)
(* Python int and str(int).  An int the model's arithmetic can hold is     *)
(* [tag |-> "int", val |-> n]; a larger one is [tag |-> "bigint", val |->  *)
(* its decimal string].                                                    *)
(***************************************************************************)
RECURSIVE NatOfDec(_)
NatOfDec(s) ==
    IF s = "" THEN <<>>
    ELSE MulLimbs(NatOfDec(SubSeq(s, 1, Len(s) - 1)), 10, IndexIn(Char(s, Len(s)), DIGITS) - 1)

RECURSIVE DecOfLimbs(_)
DecOfLimbs(m) ==
    IF BitLen(m) = 0 THEN ""
    ELSE LET dv == DivLimbs(Reverse(m), 10, 0)
         IN  DecOfLimbs(Reverse(dv.q)) \o Char(DIGITS, dv.rem + 1)

RECURSIVE DecOfNat(_)
DecOfNat(n) == IF n < 10 THEN Char(DIGITS, n + 1) ELSE DecOfNat(n \div 10) \o Char(DIGITS, (n % 10) + 1)

StrOfInt(n) == IF n < 0 THEN "-" \o DecOfNat(0 - n) ELSE DecOfNat(n)

MODEL_INT_BITS == 30

None == [tag |-> "None", val |-> 0]
IntResult(n) == [tag |-> "int", val |-> n]
Raised(exc) == [tag |-> exc, val |-> 0]

\* the Python int (-1)^neg * m
IntOfMagnitude(neg, m) ==
    IF BitLen(m) <= MODEL_INT_BITS
    THEN IntResult(IF neg THEN 0 - IntOfLimbs(m) ELSE IntOfLimbs(m))
    ELSE [tag |-> "bigint", val |-> (IF neg THEN "-" ELSE "") \o DecOfLimbs(m)]

IsInt(r) == r.tag \in {"int", "bigint"}

\* str(r) of an int r
StrOfResult(r) == IF r.tag = "int" THEN StrOfInt(r.val) ELSE r.val

(***************************************************************************)
(* float(str): sign, digits with at most one point, or inf / infinity /    *)
(* nan in any letter case.  (Exponents and digit-group underscores use     *)
(* characters outside the modelled alphabets.)                             *)
(***************************************************************************)
AllDigits(s) == \A i \in 1..Len(s) : IsDigit(Char(s, i))

\* [kind |-> "err" | "nan" | "inf" | "fin", neg, digits, k]: the value
\* (-1)^neg * digits / 10^k
FloatOfStr(str) ==
    LET s0 == Strip(str)
        signed == s0 # "" /\ Head(s0) \in {"+", "-"}
        neg == s0 # "" /\ Head(s0) = "-"
        s == IF signed THEN Tail(s0) ELSE s0
        p == IndexIn(".", s)
        ip == IF p = 0 THEN s ELSE SubSeq(s, 1, p - 1)
        fp == IF p = 0 THEN "" ELSE SubSeq(s, p + 1, Len(s))
    IN  IF Lower(s) \in {"inf", "infinity"} THEN [kind |-> "inf", neg |-> neg, digits |-> "", k |-> 0]
        ELSE IF Lower(s) = "nan" THEN [kind |-> "nan", neg |-> neg, digits |-> "", k |-> 0]
        ELSE IF AllDigits(ip) /\ AllDigits(fp) /\ Len(ip) + Len(fp) > 0
        THEN [kind |-> "fin", neg |-> neg, digits |-> ip \o fp, k |-> Len(fp)]
        ELSE [kind |-> "err", neg |-> FALSE, digits |-> "", k |-> 0]

\* int(float(x) * c) for a parsed float x; c = 1 stands for int(float(x)).
\* OverflowError on an infinity, ValueError on a nan or a rejected string
IntOfFloatTimes(x, c) ==
    LET d == DoubleOfRatio(NatOfDec(x.digits), Pow10(x.k))
    IN  CASE x.kind = "fin" ->
                IntOfMagnitude(x.neg, DoubleTrunc(IF c = 1 THEN d ELSE DoubleTimes(d, c)))
          [] x.kind = "inf" -> Raised("OverflowError")
          [] OTHER -> Raised("ValueError")

(***************************************************************************)
(* SalaryDataCleaner.clean_currency                                        *)
(***************************************************************************)
\* pandas' missing value (pd.isna); no modelled alphabet holds "<"
NaN == "<NA>"
IsNa(v) == v = NaN

MILLION == 1000000

clean_currency(value) ==
    IF IsNa(value) THEN None
    ELSE LET stripped == Strip(value)
             bare == Replace(Replace(stripped, "$", ""), " ", "")
             asMillions == IntOfFloatTimes(FloatOfStr(Replace(SubSeq(bare, 1, Len(bare) - 1), ",", "")), MILLION)
             plain == IntOfFloatTimes(FloatOfStr(Replace(bare, ",", "")), 1)
         IN  IF stripped \in {"", "-", "N/A", "nan", "None"} THEN None
             ELSE IF EndsWith(Upper(bare), "M") /\ asMillions.tag # "ValueError"
             THEN asMillions
             ELSE IF plain.tag = "ValueError" THEN None ELSE plain

(***************************************************************************)
(* clean_currency applied to raw tokens, and again to str() of the int it  *)
(* returned (the integer string to_csv writes).                            *)
(***************************************************************************)
MaxCurrencyLen == 3

CurrencyAlphabet == {"0", "1", "9", ".", ",", "$", "M", " ", "-"}

RECURSIVE StringsUpTo(_, _)
StringsUpTo(alphabet, n) ==
    IF n = 0 THEN {""}
    ELSE LET shorter == StringsUpTo(alphabet, n - 1)
         IN  shorter \cup {s \o c : s \in shorter, c \in alphabet}

CurrencyExamples ==
    {"$1,234,567", "1234567", "1.234567M", "$71,860,921", "1.001M",
     "007", "9007199254740992", "9007199254740993",
     "N/A", "nan", "None", "inf", "Infinity", "-inf", "infM", "nanM", "3.5m", NaN}

CurrencyInputs == CurrencyExamples \cup StringsUpTo(CurrencyAlphabet, MaxCurrencyLen)

CleanCurrency ==
    /\ cur_pc = "call"
    /\ cur_out' = clean_currency(cur_in)
    /\ cur_pc' = "returned"
    /\ UNCHANGED <<cur_in, cur_prev>>
    /\ UNCHANGED curOthers

\* the value is written as str(int) and parsed again
ReparseOutput ==
    /\ cur_pc = "returned"
    /\ IsInt(cur_out)
    /\ cur_prev = None
    /\ cur_in' = StrOfResult(cur_out)
    /\ cur_prev' = cur_out
    /\ cur_out' = None
    /\ cur_pc' = "call"
    /\ UNCHANGED curOthers

CurrencyNext == CleanCurrency \/ ReparseOutput

\* the integer a string of decimal digits denotes, as str(int) prints it
RECURSIVE DenotedInt(_)
DenotedInt(s) == IF Len(s) > 1 /\ Head(s) = "0" THEN DenotedInt(Tail(s)) ELSE s

\* C4: clean_currency maps "$1,234,567", "1234567" and "1.234567M" to 1234567,
\* "$71,860,921" to 71860921, and every string of decimal digits to the
\* integer it denotes.
C4_CleanIntegerStringsParseToThemselves ==
    cur_pc = "returned" =>
        /\ cur_in \in {"$1,234,567", "1234567", "1.234567M"} => cur_out = IntResult(1234567)
        /\ cur_in = "$71,860,921" => cur_out = IntResult(71860921)
        /\ (cur_in # "" /\ AllDigits(cur_in)) =>
               (IsInt(cur_out) /\ StrOfResult(cur_out) = DenotedInt(cur_in))

\* what is left of the token without the currency symbol, spaces, grouping
\* separators and a trailing multiplier is not a decimal number
HasNonNumericResidue(value) ==
    LET bare == Replace(Replace(Strip(value), "$", ""), " ", "")
        core == IF EndsWith(Upper(bare), "M") THEN SubSeq(bare, 1, Len(bare) - 1) ELSE bare
    IN  FloatOfStr(Replace(core, ",", "")).kind # "fin"

\* C15: clean_currency raises for no string input; whenever non-numeric
\* residue remains after removing the currency symbol, spaces, grouping
\* separators and a trailing multiplier it returns None, also for tokens that
\* float() accepts but that are no finite numbers, such as "inf".
C15_CleanCurrencyNeverRaises ==
    cur_pc = "returned" /\ ~IsNa(cur_in) =>
        /\ cur_out.tag \in {"None", "int", "bigint"}
        /\ HasNonNumericResidue(cur_in) => cur_out = None

(***************************************************************************)
(* salary_cleaning.py: the mapping tables and standardize_team_name        *)
(***************************************************************************)
\* salary_cleaning.py: variant -> canonical, in dict (insertion) order
TEAM_NAME_MAPPINGS ==
    << <<"Oakland Athletics", "Athletics">>, <<"Oakland A's", "Athletics">>,
       <<"Oakland", "Athletics">>, <<"A's", "Athletics">>,
       <<"Athletics", "Athletics">>, <<"Cleveland Indians", "Cleveland Guardians">>,
       <<"Cleveland", "Cleveland Guardians">>, <<"Indians", "Cleveland Guardians">>,
       <<"Guardians", "Cleveland Guardians">>, <<"Florida Marlins", "Miami Marlins">>,
       <<"Florida", "Miami Marlins">>, <<"Marlins", "Miami Marlins">>,
       <<"Montreal Expos", "Washington Nationals">>, <<"Montreal", "Washington Nationals">>,
       <<"Expos", "Washington Nationals">>, <<"Washington", "Washington Nationals">>,
       <<"Nationals", "Washington Nationals">>, <<"Tampa Bay Devil Rays", "Tampa Bay Rays">>,
       <<"Devil Rays", "Tampa Bay Rays">>, <<"Tampa Bay", "Tampa Bay Rays">>,
       <<"Rays", "Tampa Bay Rays">>, <<"Anaheim Angels", "Los Angeles Angels">>,
       <<"California Angels", "Los Angeles Angels">>, <<"Los Angeles Angels of Anaheim", "Los Angeles Angels">>,
       <<"Anaheim", "Los Angeles Angels">>, <<"LA Angels", "Los Angeles Angels">>,
       <<"Angels", "Los Angeles Angels">>, <<"NY Yankees", "New York Yankees">>,
       <<"N.Y. Yankees", "New York Yankees">>, <<"Yankees", "New York Yankees">>,
       <<"NY Mets", "New York Mets">>, <<"N.Y. Mets", "New York Yankees">>,
       <<"Mets", "New York Mets">>, <<"LA Dodgers", "Los Angeles Dodgers">>,
       <<"Los Angeles", "Los Angeles Dodgers">>, <<"Dodgers", "Los Angeles Dodgers">>,
       <<"SF Giants", "San Francisco Giants">>, <<"San Francisco", "San Francisco Giants">>,
       <<"Giants", "San Francisco Giants">>, <<"SD Padres", "San Diego Padres">>,
       <<"San Diego", "San Diego Padres">>, <<"Padres", "San Diego Padres">>,
       <<"Boston", "Boston Red Sox">>, <<"Red Sox", "Boston Red Sox">>,
       <<"Chicago Cubs", "Chicago Cubs">>, <<"Cubs", "Chicago Cubs">>,
       <<"Chicago White Sox", "Chicago White Sox">>, <<"Ch. White Sox", "Chicago White Sox">>,
       <<"White Sox", "Chicago White Sox">>, <<"Philadelphia", "Philadelphia Phillies">>,
       <<"Phillies", "Philadelphia Phillies">>, <<"Houston", "Houston Astros">>,
       <<"Astros", "Houston Astros">>, <<"Atlanta", "Atlanta Braves">>,
       <<"Braves", "Atlanta Braves">>, <<"St. Louis", "St. Louis Cardinals">>,
       <<"St Louis Cardinals", "St. Louis Cardinals">>, <<"Cardinals", "St. Louis Cardinals">>,
       <<"Texas", "Texas Rangers">>, <<"Rangers", "Texas Rangers">>,
       <<"Seattle", "Seattle Mariners">>, <<"Mariners", "Seattle Mariners">>,
       <<"Detroit", "Detroit Tigers">>, <<"Tigers", "Detroit Tigers">>,
       <<"Baltimore", "Baltimore Orioles">>, <<"Orioles", "Baltimore Orioles">>,
       <<"Minnesota", "Minnesota Twins">>, <<"Twins", "Minnesota Twins">>,
       <<"Kansas City", "Kansas City Royals">>, <<"KC Royals", "Kansas City Royals">>,
       <<"Royals", "Kansas City Royals">>, <<"Colorado", "Colorado Rockies">>,
       <<"Rockies", "Colorado Rockies">>, <<"Arizona", "Arizona Diamondbacks">>,
       <<"Diamondbacks", "Arizona Diamondbacks">>, <<"D-backs", "Arizona Diamondbacks">>,
       <<"Cincinnati", "Cincinnati Reds">>, <<"Reds", "Cincinnati Reds">>,
       <<"Pittsburgh", "Pittsburgh Pirates">>, <<"Pirates", "Pittsburgh Pirates">>,
       <<"Milwaukee", "Milwaukee Brewers">>, <<"Brewers", "Milwaukee Brewers">>,
       <<"Toronto", "Toronto Blue Jays">>, <<"Blue Jays", "Toronto Blue Jays">> >>

VALID_TEAM_NAMES ==
    << "Arizona Diamondbacks", "Athletics", "Atlanta Braves",
       "Baltimore Orioles", "Boston Red Sox", "Chicago Cubs",
       "Chicago White Sox", "Cincinnati Reds", "Cleveland Guardians",
       "Colorado Rockies", "Detroit Tigers", "Houston Astros",
       "Kansas City Royals", "Los Angeles Angels", "Los Angeles Dodgers",
       "Miami Marlins", "Milwaukee Brewers", "Minnesota Twins",
       "New York Mets", "New York Yankees", "Philadelphia Phillies",
       "Pittsburgh Pirates", "San Diego Padres", "San Francisco Giants",
       "Seattle Mariners", "St. Louis Cardinals", "Tampa Bay Rays",
       "Texas Rangers", "Toronto Blue Jays", "Washington Nationals" >>

\* <<Tm, Payroll>> rows
HARDCODED_1998 ==
    << <<"Baltimore Orioles", 71860921>>, <<"New York Yankees", 65663698>>,
       <<"Los Angeles Dodgers", 62806667>>, <<"Atlanta Braves", 61708000>>,
       <<"Texas Rangers", 60519595>>, <<"Cleveland Guardians", 59543165>>,
       <<"Boston Red Sox", 59497000>>, <<"New York Mets", 58660665>>,
       <<"San Diego Padres", 53066166>>, <<"Chicago Cubs", 49816000>>,
       <<"San Francisco Giants", 48514715>>, <<"Los Angeles Angels", 48389000>>,
       <<"Houston Astros", 48304000>>, <<"Colorado Rockies", 47714648>>,
       <<"St. Louis Cardinals", 44090854>>, <<"Seattle Mariners", 43698136>>,
       <<"Kansas City Royals", 35610000>>, <<"Chicago White Sox", 35180000>>,
       <<"Toronto Blue Jays", 34158500>>, <<"Milwaukee Brewers", 31897903>>,
       <<"Arizona Diamondbacks", 31614500>>, <<"Philadelphia Phillies", 28622500>>,
       <<"Tampa Bay Rays", 27370000>>, <<"Minnesota Twins", 24527500>>,
       <<"Athletics", 22463500>>, <<"Cincinnati Reds", 20707333>>,
       <<"Detroit Tigers", 19237500>>, <<"Miami Marlins", 15141000>>,
       <<"Pittsburgh Pirates", 13695000>>, <<"Washington Nationals", 8317000>> >>

HARDCODED_1999 ==
    << <<"New York Yankees", 88180712>>, <<"Texas Rangers", 81576598>>,
       <<"Atlanta Braves", 74890000>>, <<"Cleveland Guardians", 73278458>>,
       <<"Baltimore Orioles", 72198363>>, <<"Boston Red Sox", 71725000>>,
       <<"New York Mets", 71506427>>, <<"Los Angeles Dodgers", 71115786>>,
       <<"Arizona Diamondbacks", 70496000>>, <<"Chicago Cubs", 55443500>>,
       <<"Colorado Rockies", 54442505>>, <<"Houston Astros", 54339000>>,
       <<"Los Angeles Angels", 49868167>>, <<"Toronto Blue Jays", 48455333>>,
       <<"St. Louis Cardinals", 46173195>>, <<"San Francisco Giants", 45959557>>,
       <<"San Diego Padres", 45832180>>, <<"Seattle Mariners", 44396336>>,
       <<"Milwaukee Brewers", 42927395>>, <<"Cincinnati Reds", 42142761>>,
       <<"Tampa Bay Rays", 38027500>>, <<"Detroit Tigers", 34959667>>,
       <<"Philadelphia Phillies", 30568167>>, <<"Chicago White Sox", 24535000>>,
       <<"Athletics", 24175333>>, <<"Pittsburgh Pirates", 24167667>>,
       <<"Kansas City Royals", 16557000>>, <<"Washington Nationals", 16413000>>,
       <<"Minnesota Twins", 16345000>>, <<"Miami Marlins", 15150000>> >>

Range(q) == {q[i] : i \in 1..Len(q)}

\* a dict given as a sequence of <<key, value>> pairs
Keys(pairs) == {pairs[i][1] : i \in 1..Len(pairs)}
Lookup(pairs, key) == pairs[CHOOSE i \in 1..Len(pairs) : pairs[i][1] = key][2]

\* Python's None where a str is expected, and a result not yet computed
NONE == "<None>"
PENDING == "<pending>"
\* the position of an operation that is not being called
IDLE == "<idle>"

\* re.sub(r'^[\d]+\.?\s*', '', name)
RECURSIVE DropDigits(_)
DropDigits(s) == IF s # "" /\ IsDigit(Head(s)) THEN DropDigits(Tail(s)) ELSE s

StripRankPrefix(name) ==
    LET rest == DropDigits(name)
    IN  IF rest = name THEN name
        ELSE LStrip(IF rest # "" /\ Head(rest) = "." THEN Tail(rest) ELSE rest)

\* the first mapping entry, in dict order, whose key contains the name or is
\* contained in it (both lower-cased); 0 if there is none
PartialMatch(name) ==
    LET hits == {i \in 1..Len(TEAM_NAME_MAPPINGS) :
                    \/ Contains(Lower(name), Lower(TEAM_NAME_MAPPINGS[i][1]))
                    \/ Contains(Lower(TEAM_NAME_MAPPINGS[i][1]), Lower(name))}
    IN  IF hits = {} THEN 0 ELSE CHOOSE i \in hits : \A j \in hits : i <= j

salary_standardize_team_name(raw) ==
    IF IsNa(raw) THEN NONE
    ELSE LET name == Strip(StripRankPrefix(Strip(raw)))
         IN  IF name \in Keys(TEAM_NAME_MAPPINGS) THEN Lookup(TEAM_NAME_MAPPINGS, name)
             ELSE IF name \in Range(VALID_TEAM_NAMES) THEN name
             ELSE IF PartialMatch(name) # 0 THEN TEAM_NAME_MAPPINGS[PartialMatch(name)][2]
             ELSE name

(***************************************************************************)
(* data_cleaning.py: the mapping tables, standardize_team_name,            *)
(* standardize_cell_value                                                  *)
(***************************************************************************)
\* data_cleaning.py: the keys of the dict (each maps to itself)
STANDARD_TEAM_NAMES ==
    << "Arizona Diamondbacks", "Athletics", "Atlanta Braves",
       "Baltimore Orioles", "Boston Red Sox", "Chicago Cubs",
       "Chicago White Sox", "Cincinnati Reds", "Cleveland Guardians",
       "Colorado Rockies", "Detroit Tigers", "Houston Astros",
       "Kansas City Royals", "Los Angeles Angels", "Los Angeles Dodgers",
       "Miami Marlins", "Milwaukee Brewers", "Minnesota Twins",
       "New York Mets", "New York Yankees", "Philadelphia Phillies",
       "Pittsburgh Pirates", "San Diego Padres", "Seattle Mariners",
       "San Francisco Giants", "St. Louis Cardinals", "Tampa Bay Rays",
       "Texas Rangers", "Toronto Blue Jays", "Washington Nationals" >>

\* data_cleaning.py: the keys of the dict (each maps to itself)
STANDARD_ABBREVIATIONS ==
    << "ARI", "ATH", "ATL", "BAL", "BOS", "CHC", "CHW", "CIN", "CLE", "COL",
       "DET", "HOU", "KCR", "LAA", "LAD", "MIA", "MIL", "MIN", "NYM", "NYY",
       "PHI", "PIT", "SDP", "SEA", "SFG", "STL", "TBR", "TEX", "TOR", "WSN" >>

NAME_MAPPINGS ==
    << <<"Oakland Athletics", "Athletics">>, <<"Oakland A's", "Athletics">>,
       <<"Oakland", "Athletics">>, <<"Cleveland Indians", "Cleveland Guardians">>,
       <<"Washington Nationals", "Washington Nationals">>, <<"LA Angels", "Los Angeles Angels">>,
       <<"LA Dodgers", "Los Angeles Dodgers">>, <<"NY Mets", "New York Mets">>,
       <<"NY Yankees", "New York Yankees">>, <<"SF Giants", "San Francisco Giants">>,
       <<"SD Padres", "San Diego Padres">>, <<"TB Rays", "Tampa Bay Rays">>,
       <<"KC Royals", "Kansas City Royals">>, <<"Los Angeles Angels of Anaheim", "Los Angeles Angels">>,
       <<"Anaheim Angels", "Los Angeles Angels">>, <<"California Angels", "Los Angeles Angels">>,
       <<"Florida Marlins", "Miami Marlins">>, <<"Tampa Bay Devil Rays", "Tampa Bay Rays">>,
       <<"Montreal Expos", "Washington Nationals">> >>

ABBREVIATION_MAPPINGS ==
    << <<"OAK", "ATH">>, <<"CWS", "CHW">>,
       <<"KC", "KCR">>, <<"KAN", "KCR">>,
       <<"SD", "SDP">>, <<"WAS", "WSN">>,
       <<"WSH", "WSN">>, <<"ANA", "LAA">>,
       <<"CAL", "LAA">>, <<"FLA", "MIA">>,
       <<"MON", "WSN">>, <<"TBD", "TBR">>,
       <<"CLV", "CLE">> >>

\* a slip: the name upper-cased as standardize_abbreviation does
data_standardize_team_name_upper(raw) ==
    IF IsNa(raw) THEN raw
    ELSE LET name == Upper(Strip(raw))
         IN  IF name \in Range(STANDARD_TEAM_NAMES) THEN name
             ELSE IF name \in Keys(NAME_MAPPINGS) THEN Lookup(NAME_MAPPINGS, name)
             ELSE name

data_standardize_team_name(raw) ==
    IF IsNa(raw) THEN raw
    ELSE LET name == Strip(raw)
         IN  IF name \in Range(STANDARD_TEAM_NAMES) THEN name
             ELSE IF name \in Keys(NAME_MAPPINGS) THEN Lookup(NAME_MAPPINGS, name)
             ELSE name

\* the loop over NAME_MAPPINGS.items(): value_str.replace(old_name, new_name)
RECURSIVE ReplaceNames(_, _)
ReplaceNames(s, i) ==
    IF i > Len(NAME_MAPPINGS) THEN s
    ELSE ReplaceNames(Replace(s, NAME_MAPPINGS[i][1], NAME_MAPPINGS[i][2]), i + 1)

\* a slip: the lookahead accepts only the end of the string, r'\b' + abbr + r'$'
AbbrMatchesAt_end_only(s, i, abbr) ==
    /\ i + Len(abbr) - 1 = Len(s)
    /\ Lower(SubSeq(s, i, i + Len(abbr) - 1)) = Lower(abbr)
    /\ (i = 1 \/ ~IsWordChar(Char(s, i - 1)))

\* does r'\b' + abbr + r'(?=[\d\.\-]|$)' match s at position i, ignoring case
AbbrMatchesAt(s, i, abbr) ==
    /\ i + Len(abbr) - 1 <= Len(s)
    /\ Lower(SubSeq(s, i, i + Len(abbr) - 1)) = Lower(abbr)
    /\ (i = 1 \/ ~IsWordChar(Char(s, i - 1)))
    /\ \/ i + Len(abbr) > Len(s)
       \/ IsDigit(Char(s, i + Len(abbr)))
       \/ Char(s, i + Len(abbr)) \in {".", "-"}

\* re.sub(pattern, new, s, flags=re.IGNORECASE) from position i on
RECURSIVE SubAbbrFrom(_, _, _, _)
SubAbbrFrom(s, i, abbr, new) ==
    IF i > Len(s) THEN ""
    ELSE IF AbbrMatchesAt(s, i, abbr) THEN new \o SubAbbrFrom(s, i + Len(abbr), abbr, new)
    ELSE Char(s, i) \o SubAbbrFrom(s, i + 1, abbr, new)

\* the loop over ABBREVIATION_MAPPINGS.items()
RECURSIVE ReplaceAbbreviations(_, _)
ReplaceAbbreviations(s, i) ==
    IF i > Len(ABBREVIATION_MAPPINGS) THEN s
    ELSE ReplaceAbbreviations(
             SubAbbrFrom(s, 1, ABBREVIATION_MAPPINGS[i][1], ABBREVIATION_MAPPINGS[i][2]), i + 1)

standardize_cell_value(value) ==
    IF IsNa(value) THEN value ELSE ReplaceAbbreviations(ReplaceNames(value, 1), 1)

(***************************************************************************)
(* The two name normalizers applied to raw names                           *)
(***************************************************************************)
RankPrefixes == {"", "1. ", "12.", "3 "}

OtherNames ==
    {"", "5", "12.", "New York", "Oaklander", "Springfield Isotopes", "XYZ", NaN,
     "12. Springfield Isotopes", " XYZ ", "7 Durham Bulls"}

NameInputs ==
    {p \o n : p \in RankPrefixes,
              n \in Range(VALID_TEAM_NAMES) \cup Keys(TEAM_NAME_MAPPINGS) \cup Keys(NAME_MAPPINGS)}
    \cup OtherNames

SalaryStandardizeTeamName ==
    /\ nm_salary = PENDING
    /\ nm_salary' = salary_standardize_team_name(nm_in)
    /\ UNCHANGED <<nm_in, nm_data>>
    /\ UNCHANGED nmOthers

DataStandardizeTeamName ==
    /\ nm_data = PENDING
    /\ nm_data' = data_standardize_team_name(nm_in)
    /\ UNCHANGED <<nm_in, nm_salary>>
    /\ UNCHANGED nmOthers

NamesNext == SalaryStandardizeTeamName \/ DataStandardizeTeamName

\* C5: for every one of the 30 canonical team names c, both normalizers
\* return c itself.
C5_CanonicalNamesAreFixedPoints ==
    /\ (nm_in \in Range(VALID_TEAM_NAMES) /\ nm_salary # PENDING) => nm_salary = nm_in
    /\ (nm_in \in Range(STANDARD_TEAM_NAMES) /\ nm_data # PENDING) => nm_data = nm_in

C5_Witness ==
    /\ nm_in = "New York Mets"
    /\ nm_salary = "New York Mets"
    /\ nm_data = "New York Mets"

\* the words of the name after its last blank
RECURSIVE LastWord(_)
LastWord(name) ==
    IF \E i \in 1..Len(name) : Char(name, i) = " "
    THEN LastWord(Tail(name))
    ELSE name

\* the nickname a canonical name carries: its last word, its last two words
\* for the Red Sox, the White Sox and the Blue Jays
Nickname(canonical) ==
    IF LastWord(canonical) \in {"Sox", "Jays"}
    THEN LET city == SubSeq(canonical, 1, Len(canonical) - Len(LastWord(canonical)) - 1)
         IN  LastWord(city) \o " " \o LastWord(canonical)
    ELSE LastWord(canonical)

\* the key is the nickname or ends with " " and the nickname
EndsWithNickname(key, canonical) ==
    LET nick == Nickname(canonical)
    IN  key = nick \/ EndsWith(key, " " \o nick)

\* C28: the salary mapping table is consistent per franchise: every key maps
\* to one of the 30 canonical names, and a key that ends with the nickname of
\* a franchise ('NY Mets', 'N.Y. Mets', 'Mets') maps to the canonical team
\* carrying that nickname.
C28_VariantsOfATeamMapToThatTeam ==
    (nm_in \in Keys(TEAM_NAME_MAPPINGS) /\ nm_salary \notin {PENDING, IDLE}) =>
        /\ nm_salary \in Range(VALID_TEAM_NAMES)
        /\ \A i \in 1..Len(VALID_TEAM_NAMES) :
               EndsWithNickname(nm_in, VALID_TEAM_NAMES[i]) => nm_salary = VALID_TEAM_NAMES[i]

\* the name is no canonical name, no key of the salary mapping table, and no
\* key contains it or is contained in it (lower-cased)
SalaryMatchesNothing(name) ==
    /\ name \notin Range(VALID_TEAM_NAMES)
    /\ name \notin Keys(TEAM_NAME_MAPPINGS)
    /\ \A i \in 1..Len(TEAM_NAME_MAPPINGS) :
          /\ ~Contains(Lower(name), Lower(TEAM_NAME_MAPPINGS[i][1]))
          /\ ~Contains(Lower(TEAM_NAME_MAPPINGS[i][1]), Lower(name))

\* the name is no standard name and no key of NAME_MAPPINGS
DataMatchesNothing(name) ==
    name \notin Range(STANDARD_TEAM_NAMES) /\ name \notin Keys(NAME_MAPPINGS)

\* C13 as stated: for every input that matches nothing (not a canonical name,
\* not a key of the mapping table, no substring match in either direction
\* against the mapping keys) the normalizer returns the input unchanged.
\* (Stated for the string inputs.)
C13_UnmatchedInputIsReturnedUnchanged ==
    /\ (nm_salary \notin {PENDING, IDLE} /\ ~IsNa(nm_in) /\ SalaryMatchesNothing(nm_in))
        => nm_salary = nm_in
    /\ (nm_data \notin {PENDING, IDLE} /\ ~IsNa(nm_in) /\ DataMatchesNothing(nm_in))
        => nm_data = nm_in

(***************************************************************************)
(* standardize_cell_value applied to cells                                 *)
(***************************************************************************)
MaxCellLen == 3

CellAlphabet == {"O", "A", "K", "w", "a", "s", "4", "."}

CellExamples ==
    {"OAK4.0", "Philadelphia Phillies18.5", "PHI14.8", "oak4.0", "XOAK4.0", "OAKS",
     "Oakland Athletics12.5", "Oakland A's", "Oaklander", "Florida Marlins3.2",
     "Montreal Expos", "Washington Nationals5.0", "SD", "SF", "TB", "KC-1", "he was",
     "Mon", "FLA.MON", "12", NaN}

CellInputs == CellExamples \cup StringsUpTo(CellAlphabet, MaxCellLen)

StandardizeCellValue ==
    /\ cell_out = PENDING
    /\ cell_out' = standardize_cell_value(cell_in)
    /\ UNCHANGED cell_in
    /\ UNCHANGED cellOthers

CellNext == StandardizeCellValue

ContainsKeyOf(s, pairs) == \E k \in Keys(pairs) : Contains(s, k)
ContainsKeyOfAnyCase(s, pairs) == \E k \in Keys(pairs) : Contains(Lower(s), Lower(k))

\* the token occurs in s at position i (a name as written, an abbreviation in
\* any letter case), starts at a word boundary there and is followed by a
\* digit, by punctuation or by the end of the string
BoundedOccurrenceAt(s, i, token, any_case) ==
    LET next == i + Len(token)
    IN  /\ next - 1 <= Len(s)
        /\ IF any_case THEN Lower(SubSeq(s, i, next - 1)) = Lower(token)
                       ELSE SubSeq(s, i, next - 1) = token
        /\ (i = 1 \/ ~IsWordChar(Char(s, i - 1)))
        /\ \/ next > Len(s)
           \/ IsDigit(Char(s, next))
           \/ (~IsWordChar(Char(s, next)) /\ Char(s, next) # " ")

HasBoundedOccurrence(s) ==
    \E i \in 1..Len(s) :
        \/ \E k \in Keys(NAME_MAPPINGS) : BoundedOccurrenceAt(s, i, k, FALSE)
        \/ \E k \in Keys(ABBREVIATION_MAPPINGS) : BoundedOccurrenceAt(s, i, k, TRUE)

\* C22: embedded normalization replaces an occurrence of a historical name or
\* abbreviation only when the occurrence starts at a word boundary and is
\* followed by a digit, punctuation or the end of the string: a cell without
\* such an occurrence is returned as it is, and 'Oakland' inside 'Oaklander'
\* is left untouched.
C22_OnlyBoundedOccurrencesAreReplaced ==
    (cell_out # PENDING /\ ~IsNa(cell_in)) =>
        /\ ~HasBoundedOccurrence(cell_in) => cell_out = cell_in
        /\ cell_in = "Oaklander" => cell_out = "Oaklander"

\* C6 as stated: "OAK4.0" becomes "ATH4.0", and a string that contains no key
\* of NAME_MAPPINGS or ABBREVIATION_MAPPINGS is returned unchanged.
C6_NoKeyMeansUnchanged ==
    cell_out # PENDING =>
        /\ cell_in = "OAK4.0" => cell_out = "ATH4.0"
        /\ (~ContainsKeyOf(cell_in, NAME_MAPPINGS) /\ ~ContainsKeyOf(cell_in, ABBREVIATION_MAPPINGS))
               => cell_out = cell_in

\* C6 amended: "OAK4.0" becomes "ATH4.0", and a string that contains no key of
\* NAME_MAPPINGS and, in any letter case, no key of ABBREVIATION_MAPPINGS is
\* returned unchanged.
C6_NoKeyInAnyCaseMeansUnchanged ==
    cell_out # PENDING =>
        /\ cell_in = "OAK4.0" => cell_out = "ATH4.0"
        /\ cell_in = "Philadelphia Phillies18.5" => cell_out = cell_in
        /\ (~ContainsKeyOf(cell_in, NAME_MAPPINGS) /\ ~ContainsKeyOfAnyCase(cell_in, ABBREVIATION_MAPPINGS))
               => cell_out = cell_in

C6_Witness ==
    /\ cell_in = "OAK4.0"
    /\ cell_out = "ATH4.0"

(***************************************************************************)
(* Specifications                                                          *)
(***************************************************************************)
(***************************************************************************)
(* baseball_scraper.py: get_all_tables                                     *)
(***************************************************************************)
\* a dict as a function on its keys
EmptyDict == <<>>
Put(d, k, v) == [x \in DOMAIN d \cup {k} |-> IF x = k THEN v ELSE d[x]]

\* a <table id=...> element is [id, df]; df = BAD_TABLE when pd.read_html raises
\* on it, otherwise the DataFrame read from it
BAD_TABLE == "bad"

\* the body of the visible loop: tables[table_id] = df unless read_html raises
ScanVisible(tables, table) ==
    IF table.df = BAD_TABLE THEN tables ELSE Put(tables, table.id, table.df)

\* a slip: a table of a comment block replaces the entry of its id
RECURSIVE ScanComment_overwrites(_, _)
ScanComment_overwrites(tables, comment) ==
    IF comment = <<>> THEN tables
    ELSE LET table == Head(comment)
         IN  ScanComment_overwrites(IF table.df # BAD_TABLE
                                    THEN Put(tables, table.id, table.df) ELSE tables,
                                    Tail(comment))

\* the body of the loop over the tables of one comment block
RECURSIVE ScanComment(_, _)
ScanComment(tables, comment) ==
    IF comment = <<>> THEN tables
    ELSE LET table == Head(comment)
         IN  ScanComment(IF table.id \notin DOMAIN tables /\ table.df # BAD_TABLE
                         THEN Put(tables, table.id, table.df) ELSE tables,
                         Tail(comment))

max_comments == 50

\* a slip: the budget is never found exceeded
BudgetExceeded_never(elapsed, timeout) == FALSE

\* time.time() - start_time > timeout_seconds
BudgetExceeded(elapsed, timeout) == elapsed > timeout

\* what the page yields when no check finds the budget exceeded
RECURSIVE ScanAllVisible(_, _)
ScanAllVisible(tables, visible) ==
    IF visible = <<>> THEN tables
    ELSE ScanAllVisible(ScanVisible(tables, Head(visible)), Tail(visible))

RECURSIVE ScanAllComments(_, _, _)
ScanAllComments(tables, comments, count) ==
    IF comments = <<>> \/ count + 1 > max_comments THEN tables
    ELSE ScanAllComments(ScanComment(tables, Head(comments)), Tail(comments), count + 1)

FullScan(page) == ScanAllComments(ScanAllVisible(EmptyDict, page.visible), page.comments, 0)

\* seconds one unit of work (the page source, one table, one comment block) takes
UnitCosts == {1, 40}

DEFAULT_TIMEOUT == 60

MaxVisible == 2
MaxComments == 1

TableIds == {"t1", "t2"}
Frames == {BAD_TABLE, "A", "B"}
Tables == [id : TableIds, df : Frames]

RECURSIVE SeqsUpTo(_, _)
SeqsUpTo(S, n) ==
    IF n = 0 THEN {<<>>}
    ELSE LET shorter == SeqsUpTo(S, n - 1)
         IN  shorter \cup {Append(q, x) : q \in {r \in shorter : Len(r) = n - 1}, x \in S}

\* a page with more comment blocks than max_comments, the last one holding a table
LongPage ==
    [visible |-> <<[id |-> "t1", df |-> "A"]>>,
     comments |-> [i \in 1..(max_comments + 1) |->
                      IF i = max_comments + 1 THEN <<[id |-> "t2", df |-> "B"]>> ELSE <<>>]]

\* a page whose comment blocks repeat the id of the visible table and, in two
\* blocks, the id of a hidden one
RepeatedIdPage ==
    [visible |-> <<[id |-> "t1", df |-> "A"]>>,
     comments |-> << <<[id |-> "t1", df |-> "B"], [id |-> "t2", df |-> "B"]>>,
                     <<[id |-> "t2", df |-> "A"]>> >>]

Pages ==
    {[visible |-> v, comments |-> c] :
        v \in SeqsUpTo(Tables, MaxVisible),
        c \in SeqsUpTo({<<>>} \cup {<<t>> : t \in Tables}, MaxComments)}
    \cup {LongPage, RepeatedIdPage}

Return(tables) ==
    /\ tb_pc' = "returned"
    /\ tb_result' = tables

\* lines 187-202: the page source, the first budget check
GetPageSource ==
    /\ tb_pc = "call"
    /\ \/ /\ Return(EmptyDict)             \* driver.page_source raises
          /\ UNCHANGED <<tb_elapsed, tb_i, tb_tables>>
       \/ \E d \in UnitCosts :
            /\ tb_elapsed' = tb_elapsed + d
            /\ IF BudgetExceeded(tb_elapsed', tb_timeout)
               THEN Return(EmptyDict) /\ UNCHANGED <<tb_i, tb_tables>>
               ELSE /\ tb_pc' = "visible"
                    /\ tb_i' = 1
                    /\ tb_tables' = EmptyDict
                    /\ UNCHANGED tb_result
    /\ UNCHANGED <<tb_page, tb_timeout, tb_count>>
    /\ UNCHANGED tbOthers

\* lines 206-217: one iteration of the visible loop
VisibleTable ==
    /\ tb_pc = "visible"
    /\ tb_i <= Len(tb_page.visible)
    /\ IF BudgetExceeded(tb_elapsed, tb_timeout)
       THEN Return(tb_tables) /\ UNCHANGED <<tb_elapsed, tb_i, tb_tables>>
       ELSE /\ tb_tables' = ScanVisible(tb_tables, tb_page.visible[tb_i])
            /\ tb_i' = tb_i + 1
            /\ \E d \in UnitCosts : tb_elapsed' = tb_elapsed + d
            /\ UNCHANGED <<tb_pc, tb_result>>
    /\ UNCHANGED <<tb_page, tb_timeout, tb_count>>
    /\ UNCHANGED tbOthers

\* lines 219-232: the visible loop is exhausted, the comment pass starts
VisibleDone ==
    /\ tb_pc = "visible"
    /\ tb_i > Len(tb_page.visible)
    /\ tb_pc' = "comments"
    /\ tb_i' = 1
    /\ tb_count' = 0
    /\ UNCHANGED <<tb_page, tb_timeout, tb_elapsed, tb_tables, tb_result>>
    /\ UNCHANGED tbOthers

\* lines 234-261: one iteration of the loop over the comment blocks
CommentBlock ==
    /\ tb_pc = "comments"
    /\ tb_i <= Len(tb_page.comments)
    /\ IF BudgetExceeded(tb_elapsed, tb_timeout)
       THEN Return(tb_tables) /\ UNCHANGED <<tb_elapsed, tb_i, tb_count, tb_tables>>
       ELSE IF tb_count + 1 > max_comments
       THEN /\ Return(tb_tables)
            /\ tb_count' = tb_count + 1
            /\ UNCHANGED <<tb_elapsed, tb_i, tb_tables>>
       ELSE /\ tb_count' = tb_count + 1
            /\ tb_tables' = ScanComment(tb_tables, tb_page.comments[tb_i])
            /\ tb_i' = tb_i + 1
            /\ \E d \in UnitCosts : tb_elapsed' = tb_elapsed + d
            /\ UNCHANGED <<tb_pc, tb_result>>
    /\ UNCHANGED <<tb_page, tb_timeout>>
    /\ UNCHANGED tbOthers

\* lines 266-269: the comment loop is exhausted
CommentsDone ==
    /\ tb_pc = "comments"
    /\ tb_i > Len(tb_page.comments)
    /\ Return(tb_tables)
    /\ UNCHANGED <<tb_page, tb_timeout, tb_elapsed, tb_i, tb_count, tb_tables>>
    /\ UNCHANGED tbOthers

TablesNext == GetPageSource \/ VisibleTable \/ VisibleDone \/ CommentBlock \/ CommentsDone

IsSubMapping(a, b) == \A k \in DOMAIN a : k \in DOMAIN b /\ a[k] = b[k]

\* a step that runs the body of one of the two loops
ProcessesUnit == tb_pc \in {"visible", "comments"} /\ tb_i' = tb_i + 1

\* a step taken at a loop head with the budget exceeded
FindsBudgetExceeded ==
    /\ \/ tb_pc = "visible" /\ tb_i <= Len(tb_page.visible)
       \/ tb_pc = "comments" /\ tb_i <= Len(tb_page.comments)
    /\ tb_elapsed > tb_timeout

DistinctVisibleIds(page) ==
    \A i, j \in 1..Len(page.visible) : page.visible[i].id = page.visible[j].id => i = j

\* C7 as stated: the budget is checked before each unit of work (a unit is
\* processed only with the budget not exceeded), a check that finds it
\* exceeded returns the tables accumulated so far and raises nothing, and the
\* returned mapping is a subset of the mapping the page yields with an
\* unlimited budget.
C7_PartialResultIsSubMapping ==
    [][/\ ProcessesUnit => tb_elapsed <= tb_timeout
       /\ FindsBudgetExceeded => (tb_pc' = "returned" /\ tb_result' = tb_tables)
       /\ tb_pc' = "returned" => IsSubMapping(tb_result', FullScan(tb_page))]_vars

\* C7 amended: as above, but of the returned mapping only the identifiers are
\* always among those of the unlimited-budget mapping; the tables are those of
\* the unlimited-budget mapping when the visible tables carry distinct ids.
C7_PartialResultHasSubsetOfIds ==
    [][/\ ProcessesUnit => tb_elapsed <= tb_timeout
       /\ FindsBudgetExceeded => (tb_pc' = "returned" /\ tb_result' = tb_tables)
       /\ tb_pc' = "returned" =>
             /\ DOMAIN tb_result' \subseteq DOMAIN FullScan(tb_page)
             /\ DistinctVisibleIds(tb_page) => IsSubMapping(tb_result', FullScan(tb_page))]_vars

\* a cut-off scan: one table returned, the unlimited scan would have found two
C7_Witness ==
    /\ tb_pc = "returned"
    /\ tb_elapsed > tb_timeout
    /\ DOMAIN tb_result = {"t1"}
    /\ DOMAIN FullScan(tb_page) = {"t1", "t2"}
    /\ DistinctVisibleIds(tb_page)

\* C25: the visible pass is complete before a comment block is inspected, and
\* the comment pass never replaces a recorded table: it leaves the entries of
\* the visible pass as they are and keeps, for an id occurring in several
\* comment blocks, the first table found.
C25_CommentPassKeepsRecordedTables ==
    [][/\ (tb_pc' = "comments" /\ tb_pc # "comments") =>
              (tb_pc = "visible" /\ tb_i > Len(tb_page.visible))
       /\ tb_pc = "comments" => IsSubMapping(tb_tables, tb_tables')
       /\ (tb_pc = "comments" /\ tb_pc' = "returned") => tb_result' = tb_tables]_vars

\* the visible t1 survived the t1 of the first comment block, and the t2 of
\* the first comment block survived the t2 of the second
C25_Witness ==
    /\ tb_pc = "returned"
    /\ tb_page = RepeatedIdPage
    /\ tb_i > Len(tb_page.comments)
    /\ DOMAIN tb_result = {"t1", "t2"}
    /\ tb_result["t1"] = "A"
    /\ tb_result["t2"] = "B"

(***************************************************************************)
(* baseball_scraper.py: scrape_year                                        *)
(***************************************************************************)
\* table_mapping: table id -> output file, in dict order
table_mapping ==
    << <<"teams_standard_batting", "Batting_{year}.csv">>,
       <<"teams_standard_pitching", "Pitching_{year}.csv">>,
       <<"teams_standard_fielding", "Fielding_{year}.csv">>,
       <<"team_output", "WAA_Positions_{year}.csv">>,
       <<"postseason", "Postseason_{year}.csv">> >>

\* alternatives: output file -> table ids to try when the primary one is absent
alternatives ==
    << <<"Batting_{year}.csv", <<"teams_batting", "teams_batting_totals">> >>,
       <<"Pitching_{year}.csv", <<"teams_pitching", "teams_pitching_totals">> >>,
       <<"Fielding_{year}.csv", <<"teams_fielding", "teams_fielding_totals">> >>,
       <<"WAA_Positions_{year}.csv", <<"teams_war_batting", "teams_pos_batting">> >> >>

\* a DataFrame that clean_dataframe leaves without rows
EMPTY_FRAME == "empty"

\* df is not None and not df.empty, after clean_dataframe
Usable(df) == df # EMPTY_FRAME

\* a slip: only the first alternative id is tried
FirstUsable_first_only(all_tables, ids) ==
    IF ids # <<>> /\ Head(ids) \in DOMAIN all_tables /\ Usable(all_tables[Head(ids)])
    THEN Head(ids) ELSE NONE

\* the loop over alternatives[filename]: the first id present with usable rows
RECURSIVE FirstUsable(_, _)
FirstUsable(all_tables, ids) ==
    IF ids = <<>> THEN NONE
    ELSE IF Head(ids) \in DOMAIN all_tables /\ Usable(all_tables[Head(ids)]) THEN Head(ids)
    ELSE FirstUsable(all_tables, Tail(ids))

\* the table id whose table is saved for entry k of table_mapping, NONE if no
\* file is written for it
SourceFor(all_tables, k) ==
    LET table_id == table_mapping[k][1]
        filename == table_mapping[k][2]
    IN  IF table_id \in DOMAIN all_tables
        THEN IF Usable(all_tables[table_id]) THEN table_id ELSE NONE
        ELSE IF filename \in Keys(alternatives)
        THEN FirstUsable(all_tables, Lookup(alternatives, filename))
        ELSE NONE

Failure(error) == [success |-> FALSE, error |-> error]
Success(files, found) == [success |-> TRUE, files_created |-> files, tables_found |-> found]

\* str(e) of an exception raised by the browser or the file system
EXC_TEXT == "<e>"

MIN_REMAINING == 10
MAX_DISCOVERY == 60
MAX_TIME_PER_YEAR == 180

\* seconds that navigation, the page-load wait, and expanding hidden tables take
YearCosts == {1, 60, 120}

Min(a, b) == IF a < b THEN a ELSE b

\* a slip: get_all_tables is always given the full 60 seconds
DiscoveryBudget_full(remaining_time) == MAX_DISCOVERY

\* line 357: timeout_seconds=min(remaining_time, 60)
DiscoveryBudget(remaining_time) == Min(remaining_time, MAX_DISCOVERY)

YearReturn(result) ==
    /\ yr_pc' = "returned"
    /\ yr_result' = result

\* lines 312-330: the directory, driver.get(url)
Navigate ==
    /\ yr_pc = "call"
    /\ \/ /\ yr_pc' = "raised"           \* os.makedirs raises
          /\ UNCHANGED <<yr_elapsed, yr_result>>
       \/ \E d \in YearCosts :
            /\ yr_elapsed' = yr_elapsed + d
            /\ \/ YearReturn(Failure("Navigation failed: " \o EXC_TEXT))
               \/ yr_pc' = "navigated" /\ UNCHANGED yr_result
    /\ UNCHANGED <<yr_max_time, yr_k, yr_files>>
    /\ UNCHANGED <<tbVars, yrOthers>>

\* lines 332-342: wait_for_page_load, the first time check
WaitForPageLoad ==
    /\ yr_pc = "navigated"
    /\ \E d \in YearCosts :
         /\ yr_elapsed' = yr_elapsed + d
         /\ \/ YearReturn(Failure("Page load failed"))
            \/ IF yr_elapsed' > yr_max_time
               THEN YearReturn(Failure("Timeout during page load"))
               ELSE yr_pc' = "loaded" /\ UNCHANGED yr_result
    /\ UNCHANGED <<yr_max_time, yr_k, yr_files>>
    /\ UNCHANGED <<tbVars, yrOthers>>

\* lines 345-357: expand_hidden_tables, the second time check, the call of
\* get_all_tables
ExpandAndCallGetAllTables ==
    /\ yr_pc = "loaded"
    /\ \E d \in YearCosts :
         /\ yr_elapsed' = yr_elapsed + d
         /\ IF yr_max_time - yr_elapsed' < MIN_REMAINING
            THEN /\ YearReturn(Failure("Timeout before table extraction"))
                 /\ UNCHANGED tbVars
            ELSE /\ yr_pc' = "extracting"
                 /\ tb_pc' = "call"
                 /\ tb_timeout' = DiscoveryBudget(yr_max_time - yr_elapsed')
                 /\ tb_elapsed' = 0
                 /\ UNCHANGED <<yr_result, tb_page, tb_i, tb_count, tb_tables, tb_result>>
    /\ UNCHANGED <<yr_max_time, yr_k, yr_files>>
    /\ UNCHANGED yrOthers

\* lines 357-395: get_all_tables has returned, the save loop starts
TablesExtracted ==
    /\ yr_pc = "extracting"
    /\ tb_pc = "returned"
    /\ yr_pc' = "saving"
    /\ yr_k' = 1
    /\ yr_files' = <<>>
    /\ UNCHANGED <<yr_max_time, yr_elapsed, yr_result>>
    /\ UNCHANGED <<tbVars, yrOthers>>

\* lines 397-424: one iteration of the loop over table_mapping
SaveTable ==
    /\ yr_pc = "saving"
    /\ yr_k <= Len(table_mapping)
    /\ IF SourceFor(tb_result, yr_k) = NONE
       THEN yr_k' = yr_k + 1 /\ UNCHANGED <<yr_pc, yr_files>>
       ELSE \/ /\ yr_files' = Append(yr_files, table_mapping[yr_k][2])
               /\ yr_k' = yr_k + 1
               /\ UNCHANGED yr_pc
            \/ /\ yr_pc' = "raised"      \* df.to_csv raises
               /\ UNCHANGED <<yr_k, yr_files>>
    /\ UNCHANGED <<yr_max_time, yr_elapsed, yr_result>>
    /\ UNCHANGED <<tbVars, yrOthers>>

\* line 426: return results
SaveDone ==
    /\ yr_pc = "saving"
    /\ yr_k > Len(table_mapping)
    /\ YearReturn(Success(yr_files, DOMAIN tb_result))
    /\ UNCHANGED <<yr_max_time, yr_elapsed, yr_k, yr_files>>
    /\ UNCHANGED <<tbVars, yrOthers>>

YearNext ==
    \/ Navigate \/ WaitForPageLoad \/ ExpandAndCallGetAllTables
    \/ TablesNext
    \/ TablesExtracted \/ SaveTable \/ SaveDone

\* the pages of a year: at most MaxYearTables of the expected tables
MaxYearTables == 2

YearTableIds ==
    <<"teams_standard_batting", "teams_batting", "teams_batting_totals",
      "teams_standard_pitching", "teams_pitching", "teams_pitching_totals",
      "teams_standard_fielding", "teams_fielding", "teams_fielding_totals",
      "team_output", "teams_war_batting", "teams_pos_batting", "postseason">>

YearFrames == {EMPTY_FRAME, "A"}

RECURSIVE TablesFrom(_, _)
TablesFrom(from, n) ==
    IF n = 0 \/ from > Len(YearTableIds) THEN {<<>>}
    ELSE TablesFrom(from + 1, n)
         \cup {<<[id |-> YearTableIds[from], df |-> f]>> \o rest :
                  f \in YearFrames, rest \in TablesFrom(from + 1, n - 1)}

\* the tables all visible, or each hidden in a comment block of its own
YearPages ==
    {[visible |-> v, comments |-> <<>>] : v \in TablesFrom(1, MaxYearTables)}
    \cup {[visible |-> <<>>, comments |-> [i \in 1..Len(v) |-> <<v[i]>>]] :
             v \in TablesFrom(1, MaxYearTables)}

FilesOf(result) == Range(result.files_created)

\* some table that may be saved as entry k is on the page with usable rows
\* and the primary id, if present, is such a table
HasUsableTable(all_tables, k) ==
    LET table_id == table_mapping[k][1]
        filename == table_mapping[k][2]
    IN  IF table_id \in DOMAIN all_tables THEN Usable(all_tables[table_id])
        ELSE /\ filename \in Keys(alternatives)
             /\ \E id \in Range(Lookup(alternatives, filename)) :
                    id \in DOMAIN all_tables /\ Usable(all_tables[id])

\* C10 as stated: the period is marked failed only on navigation failure or
\* page-load failure; once the page has loaded a missing table neither fails
\* the period nor keeps the other tables from being saved.
C10_FailsOnlyOnNavigationOrPageLoad ==
    yr_pc = "returned" =>
        IF yr_result.success
        THEN \A k \in 1..Len(table_mapping) :
                 HasUsableTable(tb_result, k) <=> table_mapping[k][2] \in FilesOf(yr_result)
        ELSE yr_result.error \in {"Navigation failed: " \o EXC_TEXT, "Page load failed"}

\* C10 amended: the period is marked failed only on navigation failure,
\* page-load failure, or when the time budget is spent (more than max_time
\* elapsed after the page load, less than 10 seconds left before table
\* extraction); once get_all_tables has been called the period is never
\* marked failed, and a file is written for exactly the entries of
\* table_mapping for which a usable table was found.
C10_FailsOnlyOnNavigationPageLoadOrBudget ==
    yr_pc = "returned" =>
        IF yr_result.success
        THEN \A k \in 1..Len(table_mapping) :
                 HasUsableTable(tb_result, k) <=> table_mapping[k][2] \in FilesOf(yr_result)
        ELSE /\ yr_result.error \in {"Navigation failed: " \o EXC_TEXT, "Page load failed",
                                     "Timeout during page load", "Timeout before table extraction"}
             /\ tb_pc = IDLE

\* batting, fielding and WAA tables are missing; the pitching table is saved
\* from its second alternative and the postseason table after it
C10_Witness ==
    /\ yr_pc = "returned"
    /\ yr_result.success
    /\ yr_result.files_created = <<"Pitching_{year}.csv", "Postseason_{year}.csv">>
    /\ DOMAIN tb_result = {"teams_pitching_totals", "postseason"}

\* C26: get_all_tables is never called with less than 10 seconds of the
\* per-period budget left after the page load: the period is then abandoned
\* with a timeout failure and no file is written for it; when it is called,
\* its budget is at most what is left of the per-period budget.
C26_NoDiscoveryBelowTheBudgetFloor ==
    [][/\ (tb_pc' = "call" /\ tb_pc # "call") =>
              /\ yr_max_time - yr_elapsed' >= MIN_REMAINING
              /\ tb_timeout' <= yr_max_time - yr_elapsed'
       /\ (yr_pc = "loaded" /\ yr_max_time - yr_elapsed' < MIN_REMAINING) =>
              /\ yr_pc' = "returned"
              /\ yr_result' = Failure("Timeout before table extraction")
              /\ tb_pc' = IDLE
              /\ yr_files' = <<>>]_vars

\* the page was loaded within the budget, expanding the hidden tables used up
\* the rest, and the period was abandoned
C26_Witness ==
    /\ yr_pc = "returned"
    /\ yr_result = Failure("Timeout before table extraction")
    /\ yr_max_time - yr_elapsed < MIN_REMAINING
    /\ tb_pc = IDLE
    /\ yr_files = <<>>

\* C11: a period for which discovery yields no usable table at all (no
\* expected table id or alternative present with rows, so no file written) is
\* reported as a period failure, not as a success.
C11_NoUsableTableIsAFailure ==
    /\ yr_pc = "returned"
    /\ tb_pc = "returned"
    /\ \A k \in 1..Len(table_mapping) : ~HasUsableTable(tb_result, k)
    => ~yr_result.success

(***************************************************************************)
(* baseball_scraper.py: scrape_multiple_years                              *)
(***************************************************************************)
\* what a blocking call does: returns, raises an Exception, or is hit by the
\* user's interrupt (KeyboardInterrupt, which is not an Exception)
MaxInterrupts == 1

Interruptions == IF mu_interrupts < MaxInterrupts THEN {"KeyboardInterrupt"} ELSE {}

\* line 456, the bare except around close_driver of the restart
RestartCloseCatches(exc) == TRUE

\* lines 475 and 480, the handlers of the loop body
LoopCatches(exc) == exc \in {"KeyboardInterrupt", "Exception"}

\* a slip: the recovery is not guarded
RecoveryCatches_nothing(exc) == FALSE

\* line 490, except Exception around the recovery of the exception handler
RecoveryCatches(exc) == exc = "Exception"

\* what scrape_year returns, as scrape_multiple_years sees it
ScrapeResults ==
    {Success(<<"Batting_{year}.csv">>, {"teams_standard_batting"}),
     Failure("Page load failed")}

INTERRUPTED == Failure("Interrupted by user")

\* a slip: close_driver leaves self.driver set
AfterClose_keeps(driver) == driver

\* lines 70-79, close_driver: self.driver is None afterwards, whether quit
\* returned or raised
AfterClose(driver) == "none"

year == mu_years[mu_i]

NoteInterrupt ==
    /\ mu_interrupts' = mu_interrupts + 1
    /\ mu_int_at' = IF mu_int_at = 0 THEN mu_i ELSE mu_int_at
    /\ mu_snapshot' = IF mu_int_at = 0 THEN mu_all_results ELSE mu_snapshot

\* lines 475-478
OnKeyboardInterrupt ==
    /\ mu_all_results' = Put(mu_all_results, year, INTERRUPTED)
    /\ mu_pc' = "returned"
    /\ UNCHANGED <<mu_i, mu_failed_years, mu_raised>>

\* lines 480-483
OnException ==
    /\ mu_all_results' = Put(mu_all_results, year, Failure(EXC_TEXT))
    /\ mu_failed_years' = Append(mu_failed_years, year)
    /\ mu_raised' = mu_raised \cup {year}
    /\ mu_pc' = "recover_close"
    /\ UNCHANGED mu_i

NextPeriod ==
    /\ mu_pc' = "loop"
    /\ mu_i' = mu_i + 1

Propagate ==
    /\ mu_pc' = "propagated"
    /\ UNCHANGED mu_i

\* lines 446-452: the loop head
LoopHead ==
    /\ mu_pc = "loop"
    /\ IF mu_i > Len(mu_years)
       THEN mu_pc' = "returned" /\ UNCHANGED <<mu_started, muHistory>>
       ELSE /\ mu_started' = mu_i
            /\ \/ /\ mu_pc' = IF mu_i > 1 THEN "restart_close" ELSE "scrape"
                  /\ UNCHANGED muHistory
               \/ /\ Interruptions # {}      \* outside the try block
                  /\ NoteInterrupt
                  /\ mu_pc' = "propagated"
    /\ UNCHANGED <<mu_years, mu_i, mu_all_results, mu_failed_years, mu_driver, mu_raised,
                   mu_reset_failed>>
    /\ UNCHANGED muOthers

\* lines 453-457: close_driver of the restart
RestartClose ==
    /\ mu_pc = "restart_close"
    /\ IF mu_driver = "none"
       THEN UNCHANGED <<mu_driver, muHistory>>
       ELSE /\ mu_driver' = AfterClose(mu_driver)
            /\ \/ UNCHANGED muHistory       \* quit returns or raises an Exception
               \/ Interruptions # {} /\ NoteInterrupt /\ RestartCloseCatches("KeyboardInterrupt")
    /\ mu_pc' = "restart_sleep"
    /\ UNCHANGED <<mu_years, mu_i, mu_all_results, mu_failed_years, mu_started, mu_raised,
                   mu_reset_failed>>
    /\ UNCHANGED muOthers

\* line 458: time.sleep(3)
RestartSleep ==
    /\ mu_pc = "restart_sleep"
    /\ \/ /\ mu_pc' = "restart_setup"
          /\ UNCHANGED <<mu_i, mu_all_results, mu_failed_years, mu_raised, muHistory>>
       \/ Interruptions # {} /\ NoteInterrupt /\ OnKeyboardInterrupt
    /\ UNCHANGED <<mu_years, mu_driver, mu_started, mu_reset_failed>>
    /\ UNCHANGED muOthers

\* line 459: setup_driver of the restart
RestartSetup ==
    /\ mu_pc = "restart_setup"
    /\ \/ /\ mu_driver' = "live"
          /\ mu_pc' = "scrape"
          /\ UNCHANGED <<mu_i, mu_all_results, mu_failed_years, mu_raised, muHistory>>
       \/ /\ mu_driver' \in {mu_driver, "live"}
          /\ \/ OnException /\ UNCHANGED muHistory
             \/ Interruptions # {} /\ NoteInterrupt /\ OnKeyboardInterrupt
    /\ UNCHANGED <<mu_years, mu_started, mu_reset_failed>>
    /\ UNCHANGED muOthers

\* lines 461-473: scrape_year and the recording of its result
Scrape ==
    /\ mu_pc = "scrape"
    /\ \/ \E results \in ScrapeResults :
            /\ mu_all_results' = Put(mu_all_results, year, results)
            /\ mu_failed_years' = IF results.success THEN mu_failed_years
                                  ELSE Append(mu_failed_years, year)
            /\ IF year # mu_years[Len(mu_years)]
               THEN mu_pc' = "rate_wait" /\ UNCHANGED mu_i
               ELSE NextPeriod
            /\ UNCHANGED mu_raised
            \* an interrupt swallowed by a bare except inside scrape_year
            /\ \/ UNCHANGED muHistory
               \/ Interruptions # {} /\ NoteInterrupt
       \/ OnException /\ UNCHANGED muHistory
       \/ Interruptions # {} /\ NoteInterrupt /\ OnKeyboardInterrupt
    /\ UNCHANGED <<mu_years, mu_driver, mu_started, mu_reset_failed>>
    /\ UNCHANGED muOthers

\* line 473: time.sleep(10)
RateWait ==
    /\ mu_pc = "rate_wait"
    /\ \/ /\ NextPeriod
          /\ UNCHANGED <<mu_all_results, mu_failed_years, mu_raised, muHistory>>
       \/ Interruptions # {} /\ NoteInterrupt /\ OnKeyboardInterrupt
    /\ UNCHANGED <<mu_years, mu_driver, mu_started, mu_reset_failed>>
    /\ UNCHANGED muOthers

\* an exception of the recovery: caught at line 490 or raised to the caller
RecoveryRaises(exc) ==
    IF RecoveryCatches(exc)
    THEN NextPeriod /\ mu_reset_failed' = TRUE
    ELSE Propagate /\ UNCHANGED mu_reset_failed

\* line 487: close_driver of the recovery
RecoverClose ==
    /\ mu_pc = "recover_close"
    /\ IF mu_driver = "none"
       THEN /\ mu_pc' = "recover_sleep"
            /\ UNCHANGED <<mu_i, mu_driver, mu_reset_failed, muHistory>>
       ELSE /\ mu_driver' = AfterClose(mu_driver)
            /\ \/ /\ mu_pc' = "recover_sleep"
                  /\ UNCHANGED <<mu_i, mu_reset_failed, muHistory>>
               \/ Interruptions # {} /\ NoteInterrupt /\ RecoveryRaises("KeyboardInterrupt")
    /\ UNCHANGED <<mu_years, mu_all_results, mu_failed_years, mu_started, mu_raised>>
    /\ UNCHANGED muOthers

\* line 488: time.sleep(5)
RecoverSleep ==
    /\ mu_pc = "recover_sleep"
    /\ \/ /\ mu_pc' = "recover_setup"
          /\ UNCHANGED <<mu_i, mu_reset_failed, muHistory>>
       \/ Interruptions # {} /\ NoteInterrupt /\ RecoveryRaises("KeyboardInterrupt")
    /\ UNCHANGED <<mu_years, mu_all_results, mu_failed_years, mu_driver, mu_started, mu_raised>>
    /\ UNCHANGED muOthers

\* line 489: setup_driver of the recovery
RecoverSetup ==
    /\ mu_pc = "recover_setup"
    /\ \/ /\ mu_driver' = "live"
          /\ NextPeriod
          /\ UNCHANGED <<mu_reset_failed, muHistory>>
       \/ /\ mu_driver' \in {mu_driver, "live"}
          /\ \/ RecoveryRaises("Exception") /\ UNCHANGED muHistory
             \/ Interruptions # {} /\ NoteInterrupt /\ RecoveryRaises("KeyboardInterrupt")
    /\ UNCHANGED <<mu_years, mu_all_results, mu_failed_years, mu_started, mu_raised>>
    /\ UNCHANGED muOthers

MultiNext ==
    \/ LoopHead \/ RestartClose \/ RestartSleep \/ RestartSetup \/ Scrape \/ RateWait
    \/ RecoverClose \/ RecoverSleep \/ RecoverSetup

MaxYears == 3
YearSet == {2021, 2022, 2023}
YearLists == SeqsUpTo(YearSet, MaxYears) \ {<<>>}

Distinct(q) == \A i, j \in 1..Len(q) : q[i] = q[j] => i = j

\* C8: a user interrupt arriving while a period is processed is caught by the
\* loop: it never propagates out of scrape_multiple_years, no later period is
\* started, and at the return the current period is recorded as interrupted
\* and the results of the earlier periods are those recorded before it.
C8_InterruptIsCaughtAtLoopBoundary ==
    mu_int_at # 0 =>
        /\ mu_pc # "propagated"
        /\ mu_started = mu_int_at
        /\ mu_pc = "returned" =>
              /\ mu_years[mu_int_at] \in DOMAIN mu_all_results
              /\ mu_all_results[mu_years[mu_int_at]] = INTERRUPTED
              /\ \A j \in 1..(mu_int_at - 1) :
                     mu_years[j] # mu_years[mu_int_at] =>
                         mu_all_results[mu_years[j]] = mu_snapshot[mu_years[j]]

\* C9: without a user interrupt the run never aborts: no exception leaves
\* scrape_multiple_years, every period is started, at the return every year of
\* a list of distinct years has a recorded result, and a year whose period
\* raised is recorded as failed with the error string and is in failed_years.
C9_EveryYearGetsAResult ==
    (mu_pc # IDLE /\ mu_interrupts = 0 /\ Distinct(mu_years)) =>
        /\ mu_pc # "propagated"
        /\ \A y \in mu_raised :
               /\ y \in DOMAIN mu_all_results
               /\ mu_all_results[y] = Failure(EXC_TEXT)
               /\ y \in Range(mu_failed_years)
        /\ mu_pc = "returned" =>
               /\ mu_started = Len(mu_years)
               /\ DOMAIN mu_all_results = Range(mu_years)

\* a period raised, the reset failed, and the next period was still scraped
C9_Witness ==
    /\ mu_pc = "returned"
    /\ mu_interrupts = 0
    /\ mu_years = <<2021, 2022>>
    /\ mu_raised = {2021}
    /\ mu_reset_failed
    /\ mu_all_results[2021] = Failure(EXC_TEXT)
    /\ mu_all_results[2022].success

\* C27: once the success of a period is recorded in all_results, the record
\* of the period is never replaced by a failure for the rest of the run,
\* whatever happens afterwards (a user interrupt during the rate-limit wait
\* included).  Stated for lists of distinct years.
C27_RecordedSuccessIsKept ==
    [][Distinct(mu_years) =>
          \A y \in DOMAIN mu_all_results :
              mu_all_results[y].success =>
                  (y \in DOMAIN mu_all_results' /\ mu_all_results'[y].success)]_vars

\* the periods are started one by one in list order, and a period after the
\* first is scraped only after the restart has closed the driver and
\* setup_driver has launched a new one
SequentialAndRecycled ==
    /\ mu_started' # mu_started => mu_started' = mu_started + 1 /\ mu_started' = mu_i
    /\ mu_pc' = "scrape" => mu_started' = mu_i'
    /\ (mu_pc' = "restart_close" /\ mu_pc # "restart_close") => mu_pc = "loop" /\ mu_i > 1
    /\ (mu_pc' = "restart_sleep" /\ mu_pc # "restart_sleep") =>
           mu_pc = "restart_close" /\ mu_driver' = "none"
    /\ (mu_pc' = "restart_setup" /\ mu_pc # "restart_setup") => mu_pc = "restart_sleep"
    /\ (mu_pc' = "scrape" /\ mu_pc # "scrape") =>
           \/ mu_i = 1 /\ mu_pc = "loop"
           \/ mu_i > 1 /\ mu_pc = "restart_setup" /\ mu_driver = "none" /\ mu_driver' = "live"

\* setup_driver is invoked only while no driver is live
SetupOnlyWithoutDriver == mu_pc' \in {"restart_setup", "recover_setup"} => mu_driver' = "none"

DataFrame(columns, rows) == [columns |-> columns, rows |-> rows]

\* position of the column labelled col (labels of a table are distinct)
ColumnIndex(df, col) == CHOOSE j \in 1..Len(df.columns) : df.columns[j] = col

\* df[col]
ColumnValues(df, col) == [i \in 1..Len(df.rows) |-> df.rows[i][ColumnIndex(df, col)]]

\* any(kw in s for kw in keywords)
AnyIn(keywords, s) == \E i \in 1..Len(keywords) : Contains(s, keywords[i])

\* series.dropna().head(n)
DropNaHead(series, n) ==
    LET present == SelectSeq(series, LAMBDA c : ~IsNa(c))
    IN  SubSeq(present, 1, IF Len(present) < n THEN Len(present) ELSE n)

team_keywords == <<"team", "tm", "name", "club">>
SAMPLE_ROWS == 10
MIN_TEAM_MATCHES == 3

\* team_matches of a column: sampled values that are known team names
TeamMatches(series) ==
    LET sample_values == DropNaHead(series, SAMPLE_ROWS)
    IN  Cardinality({i \in 1..Len(sample_values) :
            LET clean_val == Strip(StripRankPrefix(sample_values[i]))
            IN  clean_val \in Keys(TEAM_NAME_MAPPINGS) \/ clean_val \in Range(VALID_TEAM_NAMES)})

identify_team_column(df) ==
    LET n == Len(df.columns)
        named == {j \in 1..n : AnyIn(team_keywords, Lower(df.columns[j]))}
        byContent == {j \in 1..n : TeamMatches(ColumnValues(df, df.columns[j])) >= MIN_TEAM_MATCHES}
        First(S) == CHOOSE j \in S : \A k \in S : j <= k
    IN  IF named # {} THEN df.columns[First(named)]
        ELSE IF TeamMatches(ColumnValues(df, df.columns[1])) >= MIN_TEAM_MATCHES THEN df.columns[1]
        ELSE IF byContent # {} THEN df.columns[First(byContent)]
        ELSE df.columns[1]

avoid_keywords == <<"average", "avg", "median", "mean", "per", "minimum", "min">>
payroll_keywords == <<"payroll", "total", "salary", "opening">>
MIN_VALID_VALUES == 10
MAX_THRESHOLD == 10000000
MEDIAN_THRESHOLD == 5000000

\* the number a cleaned value is compared as; an int wider than the modelled
\* width compares as the widest modelled magnitude
Amount(r) ==
    IF r.tag = "int" THEN r.val
    ELSE IF Head(r.val) = "-" THEN 0 - Pow2(MODEL_INT_BITS) ELSE Pow2(MODEL_INT_BITS)

MaxOf(vals) == CHOOSE v \in Range(vals) : \A w \in Range(vals) : v >= w

KthSmallest(vals, k) ==
    CHOOSE v \in Range(vals) :
        /\ Cardinality({i \in 1..Len(vals) : vals[i] < v}) < k
        /\ k <= Cardinality({i \in 1..Len(vals) : vals[i] <= v})

\* valid_values.median() > threshold: the middle value, or the mean of the two
\* middle values
MedianAbove(vals, threshold) ==
    LET n == Len(vals)
        lo == KthSmallest(vals, (n + 1) \div 2)
        hi == KthSmallest(vals, (n \div 2) + 1)
    IN  lo > 2 * threshold - hi

\* len(valid_values) >= 10
EnoughValues(n) == n >= MIN_VALID_VALUES

\* what the two passes read from cleaned_values: whether the apply raised,
\* len(valid_values), valid_values.max() and valid_values.median() > 5,000,000
Summary(cleaned_values) ==
    LET raised == \E i \in 1..Len(cleaned_values) : cleaned_values[i].tag \notin {"None", "int", "bigint"}
        valid_values == SelectSeq(cleaned_values, LAMBDA r : r.tag # "None")
        amounts == [i \in 1..Len(valid_values) |-> Amount(valid_values[i])]
    IN  IF raised \/ valid_values = <<>>
        THEN [raised |-> raised, count |-> 0, max_val |-> 0, median_above |-> FALSE]
        ELSE [raised |-> FALSE, count |-> Len(amounts), max_val |-> MaxOf(amounts),
              median_above |-> MedianAbove(amounts, MEDIAN_THRESHOLD)]

\* df[col].apply(self.clean_currency), summarised (the singleton set has the
\* column cleaned once)
ColumnStats(df, col) ==
    LET series == ColumnValues(df, col)
    IN  CHOOSE summary \in {Summary(cleaned_values) :
            cleaned_values \in {[i \in 1..Len(series) |-> clean_currency(series[i])]}} : TRUE

\* candidate_columns.sort(key=(priority, max_val), reverse=True)[0]: the first
\* of the candidates that no other candidate beats
BestCandidate(candidates) ==
    LET Beats(a, b) == a.priority > b.priority \/ (a.priority = b.priority /\ a.max_val > b.max_val)
        best == CHOOSE i \in 1..Len(candidates) :
                    /\ \A k \in 1..Len(candidates) : ~Beats(candidates[k], candidates[i])
                    /\ \A k \in 1..(i - 1) : Beats(candidates[i], candidates[k])
    IN  candidates[best].col

\* the two passes over the columns other than the team column, stats[j] being
\* the summary of column others[j]
SelectPayrollColumn(others, stats) ==
    LET index == [j \in 1..Len(others) |-> j]
        Candidate(j, priority) == [col |-> others[j], max_val |-> stats[j].max_val, priority |-> priority]
        plausible == SelectSeq(index, LAMBDA j :
                        /\ ~AnyIn(avoid_keywords, Lower(others[j]))
                        /\ ~stats[j].raised
                        /\ EnoughValues(stats[j].count)
                        /\ stats[j].max_val > MAX_THRESHOLD
                        /\ stats[j].median_above)
        fallback == SelectSeq(index, LAMBDA j :
                        /\ ~stats[j].raised
                        /\ EnoughValues(stats[j].count)
                        /\ stats[j].max_val > 0)
        candidate_columns ==
            IF plausible # <<>>
            THEN [k \in 1..Len(plausible) |->
                    Candidate(plausible[k],
                              IF AnyIn(payroll_keywords, Lower(others[plausible[k]])) THEN 2 ELSE 1)]
            ELSE [k \in 1..Len(fallback) |-> Candidate(fallback[k], 0)]
    IN  IF candidate_columns # <<>> THEN BestCandidate(candidate_columns) ELSE NONE

identify_payroll_column(df, team_col) ==
    CHOOSE payroll_col \in {SelectPayrollColumn(others, [j \in 1..Len(others) |-> ColumnStats(df, others[j])]) :
        others \in {SelectSeq(df.columns, LAMBDA col : col # team_col)}} : TRUE

(***************************************************************************)
(* identify_payroll_column on tables with the columns Team, AvgSalary and  *)
(* TotalPayroll in every order, as clean_dataframe calls it: after         *)
(* identify_team_column.  The rows are a prefix of SALARY_ROWS; one cell   *)
(* of the first row may be missing.                                        *)
(***************************************************************************)
SALARY_LABELS == <<"Team", "AvgSalary", "TotalPayroll">>

SALARY_ROWS ==
    << <<"Arizona Diamondbacks", "$3,000,000", "$150,000,000">>,
       <<"Atlanta Braves", "2950000", "142500000">>,
       <<"Baltimore Orioles", "$3.1M", "$131.5M">>,
       <<"Boston Red Sox", "3,050,000", "128,000,000">>,
       <<"Chicago Cubs", "$2,900,000", "$121,000,000">>,
       <<"Chicago White Sox", "3020000", "117250000">>,
       <<"Cincinnati Reds", "$3.0M", "$110M">>,
       <<"Cleveland Indians", "2,980,000", "104,000,000">>,
       <<"Colorado Rockies", "$3,010,000", "$99,500,000">>,
       <<"Detroit Tigers", "2990000", "93000000">>,
       <<"Houston Astros", "$2.95M", "$87.5M">>,
       <<"Kansas City Royals", "3,040,000", "80,000,000">>,
       <<"Los Angeles Angels", "$3,000,000", "$82,000,000">> >>

MaxPayrollRows == 11

ColumnOrders == {o \in [1..3 -> 1..3] : \A a, b \in 1..3 : o[a] = o[b] => a = b}

\* the table of the rows with its columns in the order o
SalaryTable(o, rows) ==
    DataFrame([j \in 1..3 |-> SALARY_LABELS[o[j]]],
              [i \in 1..Len(rows) |-> [j \in 1..3 |-> rows[i][o[j]]]])

\* the rows with cell k of the first row missing (k = 0: none missing)
WithMissing(rows, k) ==
    IF k = 0 THEN rows ELSE [rows EXCEPT ![1] = [rows[1] EXCEPT ![k] = NaN]]

PayrollTables ==
    {SalaryTable(o, WithMissing(SubSeq(SALARY_ROWS, 1, n), k)) :
        o \in ColumnOrders, n \in (MaxPayrollRows - 3)..MaxPayrollRows, k \in {0, 2, 3}}

IdentifyTeamColumn ==
    /\ pay_team_col = PENDING
    /\ pay_team_col' = identify_team_column(pay_df)
    /\ UNCHANGED <<pay_df, pay_out, payOthers>>

IdentifyPayrollColumn ==
    /\ pay_team_col \notin {PENDING, IDLE}
    /\ pay_out = PENDING
    /\ pay_out' = identify_payroll_column(pay_df, pay_team_col)
    /\ UNCHANGED <<pay_df, pay_team_col, payOthers>>

PayrollNext == IdentifyTeamColumn \/ IdentifyPayrollColumn

(***************************************************************************)
(* identify_team_column on tables of a rank, a franchise and a payroll     *)
(* column, the franchise column under a header with or without a team      *)
(* keyword.                                                                *)
(***************************************************************************)
MaxTeamRows == 3
TEAM_HEADERS ==
    {<<"Rk", "Franchise", "Payroll">>, <<"Franchise", "Rk", "Payroll">>,
     <<"Rk", "Club", "Payroll">>, <<"Rk", "Payroll", "Franchise">>}
FRANCHISE_CELLS ==
    {"Boston Red Sox", "2. NY Mets", "Boston Red Sox (AL)", "Durham Bulls", NaN}

\* row i holds its rank, its franchise cell and a payroll
TeamTables ==
    {DataFrame(h, [i \in 1..Len(cells) |->
                     [j \in 1..3 |-> IF h[j] = "Rk" THEN StrOfInt(i)
                                     ELSE IF h[j] = "Payroll" THEN "$100,000,000"
                                     ELSE cells[i]]]) :
        h \in TEAM_HEADERS,
        cells \in {c \in SeqsUpTo(FRANCHISE_CELLS, MaxTeamRows) : Len(c) = MaxTeamRows}}

TeamColumnNext == IdentifyTeamColumn

\* the sampled value, its rank prefix stripped, is a canonical or variant
\* name, or holds one
MatchesIdentity(val) ==
    LET clean_val == Strip(StripRankPrefix(val))
    IN  \E k \in Keys(TEAM_NAME_MAPPINGS) \cup Range(VALID_TEAM_NAMES) :
            clean_val = k \/ Contains(clean_val, k)

QualifiesByContent(df, col) ==
    LET sample_values == DropNaHead(ColumnValues(df, col), SAMPLE_ROWS)
    IN  Cardinality({i \in 1..Len(sample_values) : MatchesIdentity(sample_values[i])})
            >= MIN_TEAM_MATCHES

\* C24: identify_team_column returns a column whose header matches the
\* identity keyword set when one exists; otherwise a column in which at least
\* 3 of the sampled leading rows match, exactly or by substring, the
\* canonical / variant identity sets after the rank prefix is stripped; and
\* the first column if no column qualifies.
C24_TeamColumnByHeaderThenContent ==
    (pay_out = IDLE /\ pay_team_col \notin {PENDING, IDLE}) =>
        LET columns == Range(pay_df.columns)
            named == {col \in columns : AnyIn(team_keywords, Lower(col))}
            byContent == {col \in columns : QualifiesByContent(pay_df, col)}
        IN  IF named # {} THEN pay_team_col \in named
            ELSE IF byContent # {} THEN pay_team_col \in byContent
            ELSE pay_team_col = pay_df.columns[1]

NoMissingCell(df) == \A i \in 1..Len(df.rows) : \A j \in 1..Len(df.columns) : ~IsNa(df.rows[i][j])

\* C2: for a table with the columns Team, AvgSalary (values about 3,000,000)
\* and TotalPayroll (values between 80,000,000 and 150,000,000), in any column
\* order, identify_payroll_column returns TotalPayroll.
C2_PayrollColumnIsTotalPayroll ==
    pay_out \notin {PENDING, IDLE} /\ NoMissingCell(pay_df) => pay_out = "TotalPayroll"

\* some column other than the team column has a value that cleans to a
\* positive amount
SomePositiveValue(df, team_col) ==
    \E j \in 1..Len(df.columns) :
        /\ df.columns[j] # team_col
        /\ \E i \in 1..Len(df.rows) :
              \E r \in {clean_currency(df.rows[i][j])} : IsInt(r) /\ Amount(r) > 0

\* C17: identify_payroll_column returns None only if every column other than
\* the team column is entirely non-numeric; whenever one of them has at least
\* one value that parses to a positive amount a column is returned, for
\* tables of any number of rows.
C17_NoneOnlyIfNothingNumeric ==
    pay_out \notin {PENDING, IDLE} /\ SomePositiveValue(pay_df, pay_team_col) => pay_out # NONE

\* the column passes the threshold test: its header has no avoid keyword, the
\* largest of its parsed values is above 10,000,000 and their median above
\* 5,000,000
PassesThresholds(col, summary) ==
    /\ ~AnyIn(avoid_keywords, Lower(col))
    /\ ~summary.raised
    /\ summary.count > 0
    /\ summary.max_val > MAX_THRESHOLD
    /\ summary.median_above

PreferredHeader(col) == AnyIn(<<"payroll", "total", "salary">>, Lower(col))

\* C23: among the columns that qualify as payroll candidates (header without
\* an avoid keyword, parsed maximum > 10,000,000, parsed median > 5,000,000)
\* identify_payroll_column returns one whose header contains a payroll /
\* total / salary keyword whenever such a candidate exists, among equally
\* preferred candidates the one with the largest maximum, and never a column
\* that fails the threshold test while some column passes it.
C23_PreferredQualifyingColumnIsReturned ==
    pay_out \notin {PENDING, IDLE} =>
        \E others \in {SelectSeq(pay_df.columns, LAMBDA col : col # pay_team_col)} :
        \E stats \in {[j \in 1..Len(others) |-> ColumnStats(pay_df, others[j])]} :
            LET qualifying == {j \in 1..Len(others) : PassesThresholds(others[j], stats[j])}
            IN  qualifying # {} =>
                    \E r \in qualifying :
                        /\ pay_out = others[r]
                        /\ \A q \in qualifying :
                               /\ PreferredHeader(others[q]) => PreferredHeader(others[r])
                               /\ PreferredHeader(others[q]) = PreferredHeader(others[r])
                                      => stats[q].max_val <= stats[r].max_val

(***************************************************************************)
(* SalaryDataCleaner.clean_dataframe and process_file                      *)
(***************************************************************************)
HEADER_PATTERNS == <<"league", "average", "avg", "total", "rank">>

\* astype(str) of a cell
StrOfCell(c) == IF IsNa(c) THEN "nan" ELSE c

\* df.dropna(how='all'), then without the rows whose first cell matches
\* 'league|average|avg|total|rank' in any letter case
DropEmptyAndHeaderRows(df) ==
    DataFrame(df.columns,
              SelectSeq(df.rows, LAMBDA row :
                  /\ \E j \in 1..Len(row) : ~IsNa(row[j])
                  /\ ~AnyIn(HEADER_PATTERNS, Lower(StrOfCell(row[1])))))

\* a slip: the harder match lets every team through
HarderMatch_passes(team) == team

\* the first valid name, in list order, that contains the team or is contained
\* in it (both lower-cased); NONE if there is none
HarderMatch(team) ==
    LET hits == {i \in 1..Len(VALID_TEAM_NAMES) :
                    \/ Contains(Lower(VALID_TEAM_NAMES[i]), Lower(team))
                    \/ Contains(Lower(team), Lower(VALID_TEAM_NAMES[i]))}
    IN  IF hits = {} THEN NONE ELSE VALID_TEAM_NAMES[CHOOSE i \in hits : \A j \in hits : i <= j]

\* a row that appends no record
SKIPPED == [Tm |-> NONE, Payroll |-> None]

\* a slip: a row whose team is not recognised is kept under the team it has
RecordOf_keeps_unrecognised(team, payroll) ==
    IF team \notin {NONE, ""} /\ IsInt(payroll) /\ Amount(payroll) > 0
    THEN [Tm |-> team, Payroll |-> payroll]
    ELSE SKIPPED

\* the record appended for a row with the standardized team and the cleaned
\* payroll
RecordOf(team, payroll) ==
    IF team \notin {NONE, ""} /\ IsInt(payroll) /\ Amount(payroll) > 0
    THEN IF team \in Range(VALID_TEAM_NAMES) THEN [Tm |-> team, Payroll |-> payroll]
         ELSE IF HarderMatch(team) # NONE THEN [Tm |-> HarderMatch(team), Payroll |-> payroll]
         ELSE SKIPPED
    ELSE SKIPPED

\* one turn of the loop over df.iterrows() (the singleton sets have the team
\* standardized and the payroll cleaned once)
CleanRow(team_raw, payroll_raw) ==
    CHOOSE record \in {RecordOf(team, payroll) :
        team \in {salary_standardize_team_name(team_raw)},
        payroll \in {clean_currency(payroll_raw)}} : TRUE

\* the identity value is a bare rank: nothing is left of it once the rank
\* prefix is stripped
IsBareRank(team_raw) == ~IsNa(team_raw) /\ Strip(StripRankPrefix(Strip(team_raw))) = ""

\* C30: a row whose identity value is empty once the rank prefix is stripped
\* ('5', '12.') never produces a payroll record attributed to a team:
\* standardize_team_name resolves the empty name to no canonical team, and
\* the row, whatever its payroll, appends no record.
C30_BareRankIsNoTeam ==
    (nm_salary \notin {PENDING, IDLE} /\ IsBareRank(nm_in)) =>
        /\ nm_salary \notin Range(VALID_TEAM_NAMES)
        /\ RecordOf(nm_salary, IntResult(95000000)) = SKIPPED

\* sort_values('Payroll', ascending=False): equal payrolls keep their order
\* here; quicksort leaves it open, and the tables of the runs have equal
\* payrolls only in equal records
SortByPayrollDescending(records) ==
    LET n == Len(records)
        Place(i) == 1 + Cardinality({k \in 1..n : Amount(records[k].Payroll) > Amount(records[i].Payroll)})
                      + Cardinality({k \in 1..(i - 1) : Amount(records[k].Payroll) = Amount(records[i].Payroll)})
    IN  [p \in 1..n |-> records[CHOOSE i \in 1..n : Place(i) = p]]

\* the table of the records as to_csv writes it and read_csv reads it back
FrameOf(records) ==
    DataFrame(<<"Tm", "Payroll">>,
              [i \in 1..Len(records) |-> <<records[i].Tm, StrOfResult(records[i].Payroll)>>])

\* lines 489-531, with the columns found by the inference
CleanWith(df, team_col, payroll_col) ==
    IF payroll_col = NONE THEN None
    ELSE CHOOSE result \in
            {IF clean_data # <<>> THEN FrameOf(SortByPayrollDescending(clean_data)) ELSE None :
                clean_data \in {SelectSeq([i \in 1..Len(df.rows) |->
                                    CleanRow(df.rows[i][ColumnIndex(df, team_col)],
                                             df.rows[i][ColumnIndex(df, payroll_col)])],
                                    LAMBDA record : record # SKIPPED)}} : TRUE

\* lines 477-482
InferColumns(df) ==
    CHOOSE cols \in UNION {{<<team_col, payroll_col>> :
                               payroll_col \in {identify_payroll_column(df, team_col)}} :
                           team_col \in {identify_team_column(df)}} : TRUE

\* the cleaned table, or None.  (The payroll column is one whose cleaning did
\* not raise, so the loop over the rows does not raise either.)
clean_dataframe(df) ==
    IF df.rows = <<>> \/ df.columns = <<>> THEN None
    ELSE CHOOSE result \in
            {CHOOSE r \in {CleanWith(kept, cols[1], cols[2]) : cols \in {InferColumns(kept)}} : TRUE :
                kept \in {DropEmptyAndHeaderRows(df)}} : TRUE

\* a file pd.read_csv raises on
UNREADABLE == Raised("EmptyDataError")

\* line 612: salary_file.exists() is false
NO_FILE == [tag |-> "no file", val |-> 0]
\* line 624
NOT_FOUND == "File not found"

HardcodedFor_1998_only(y) == IF y = 1998 THEN HARDCODED_1998 ELSE NONE

\* the curated list process_file writes for the year, NONE for a year it cleans
HardcodedFor(y) ==
    IF y = 1998 THEN HARDCODED_1998
    ELSE IF y = 1999 THEN HARDCODED_1999
    ELSE NONE

\* pd.DataFrame(HARDCODED_xxxx) as to_csv writes it
HardcodedFrame(hardcoded) ==
    DataFrame(<<"Tm", "Payroll">>,
              [i \in 1..Len(hardcoded) |-> <<hardcoded[i][1], StrOfInt(hardcoded[i][2])>>])

(***************************************************************************)
(* process_file on Salaries_{year}.csv.  The scraped file holds a prefix   *)
(* of SALARY_ROWS followed by extra rows, is a table without rows, or is   *)
(* unreadable; process_all_years calls process_file once per run of the    *)
(* cleaner, so a later call finds the file the earlier one wrote.          *)
(***************************************************************************)
EXTRA_ROWS ==
    { <<"Oakland Athletics", "$2,800,000", "$85,000,000">>,
      <<"Oakland A's", "$2,900,000", "$86,000,000">>,
      <<"League Average", "$3,000,000", "$100,000,000">>,
      <<"12. Springfield Isotopes", "$1,000,000", "$50,000,000">> }

\* teams outside the 30 franchises, with plausible payrolls
UNKNOWN_ROWS ==
    << <<"Springfield Isotopes", "$3,000,000", "$150,000,000">>,
       <<"Durham Bulls", "2950000", "142500000">>,
       <<"Toledo Mud Hens", "$3.1M", "$131.5M">>,
       <<"Albuquerque Dukes", "3,050,000", "128,000,000">>,
       <<"Buffalo Bisons", "$2,900,000", "$121,000,000">>,
       <<"Nashville Sounds", "3020000", "117250000">>,
       <<"XYZ", "$3.0M", "$110M">>,
       <<"Memphis Redbirds", "2,980,000", "104,000,000">>,
       <<"Tacoma Rainiers", "$3,010,000", "$99,500,000">>,
       <<"12. Norfolk Tides", "2990000", "93000000">> >>

\* teams of the 30 with a payroll that is zero, negative or missing
NONPOSITIVE_ROWS ==
    << <<"Houston Astros", "$0", "$0">>,
       <<"Kansas City Royals", "-1", "-$80,000,000">>,
       <<"Los Angeles Angels", NaN, "N/A">>,
       <<"Los Angeles Dodgers", "0.4", "0.9">> >>

MaxFillerRows == 9
MaxExtraRows == 2
MaxProcessCalls == 2

SalaryYears == {1998, 1999, 2000}

\* Team first, or TotalPayroll first
SalaryOrders == {<<1, 2, 3>>, <<3, 1, 2>>}

SalaryFiles ==
    {SalaryTable(o, SubSeq(SALARY_ROWS, 1, n) \o extra) :
        o \in SalaryOrders, n \in {MaxFillerRows - 1, MaxFillerRows},
        extra \in SeqsUpTo(EXTRA_ROWS, MaxExtraRows)}
    \cup {SalaryTable(o, UNKNOWN_ROWS \o extra) :
             o \in SalaryOrders, extra \in SeqsUpTo(EXTRA_ROWS, 1)}
    \cup {SalaryTable(o, SubSeq(SALARY_ROWS, 1, 10) \o NONPOSITIVE_ROWS) : o \in SalaryOrders}
    \cup {UNREADABLE, DataFrame(SALARY_LABELS, <<>>), NO_FILE}

\* lines 612-614 and 546-560: the file exists; the curated list replaces it
ProcessHardcodedYear ==
    /\ sl_calls < MaxProcessCalls
    /\ sl_file # NO_FILE
    /\ HardcodedFor(sl_year) # NONE
    /\ sl_file' = HardcodedFrame(HardcodedFor(sl_year))
    /\ sl_result' = <<TRUE, Len(HardcodedFor(sl_year))>>
    /\ sl_inferred' = FALSE
    /\ sl_calls' = sl_calls + 1
    /\ UNCHANGED <<sl_year, slOthers>>

\* lines 562-581: the file is read, cleaned and, if records remain, replaced
ProcessScrapedFile ==
    /\ sl_calls < MaxProcessCalls
    /\ sl_file # NO_FILE
    /\ HardcodedFor(sl_year) = NONE
    /\ \E clean_df \in {IF sl_file = UNREADABLE THEN None ELSE clean_dataframe(sl_file)} :
          IF clean_df # None /\ clean_df.rows # <<>>
          THEN sl_file' = clean_df /\ sl_result' = <<TRUE, Len(clean_df.rows)>>
          ELSE sl_file' = sl_file /\ sl_result' = <<FALSE, 0>>
    /\ sl_inferred' = (sl_file # UNREADABLE)
    /\ sl_calls' = sl_calls + 1
    /\ UNCHANGED <<sl_year, slOthers>>

\* lines 612, 622-624, process_all_years: a year without a Salaries file is
\* reported and passed over
SkipMissingFile ==
    /\ sl_file = NO_FILE
    /\ sl_result' = NOT_FOUND
    /\ UNCHANGED <<sl_year, sl_file, sl_calls, sl_inferred, slOthers>>

SalaryNext == ProcessHardcodedYear \/ ProcessScrapedFile \/ SkipMissingFile

Returned == sl_calls > 0
TeamsOf(df) == [i \in 1..Len(df.rows) |-> df.rows[i][1]]

\* C1: for 1998 and for 1999 process_file runs no column inference and writes
\* exactly the curated list of the year: 30 records, one for each canonical
\* team, with the payrolls of HARDCODED_1998 / HARDCODED_1999, whatever the
\* scraped file held.
C1_HardcodedYearsWriteTheCuratedList ==
    Returned /\ sl_year \in {1998, 1999} =>
        LET curated == IF sl_year = 1998 THEN HARDCODED_1998 ELSE HARDCODED_1999
        IN  /\ ~sl_inferred
            /\ sl_result = <<TRUE, 30>>
            /\ sl_file.columns = <<"Tm", "Payroll">>
            /\ Len(sl_file.rows) = 30
            /\ \A i \in 1..30 : sl_file.rows[i] = <<curated[i][1], StrOfInt(curated[i][2])>>
            /\ Range(TeamsOf(sl_file)) = Range(VALID_TEAM_NAMES)

C1_Witness ==
    /\ sl_year = 1999
    /\ sl_calls = 1
    /\ sl_file = HardcodedFrame(HARDCODED_1999)
    /\ sl_result = <<TRUE, 30>>

\* the cleaning run has dealt with the year
Handled == sl_calls > 0 \/ sl_result = NOT_FOUND

\* C19: for 1998 and 1999 a cleaning run emits the curated record set of the
\* year whatever scraping produced for it, also when scraping produced no
\* Salaries file for the year.
C19_OverrideYearsAlwaysEmitTheCuratedSet ==
    Handled /\ sl_year \in {1998, 1999} =>
        sl_file = HardcodedFrame(HardcodedFor(sl_year))

\* the team cell names one of the 30 teams, directly, through the mapping or
\* through one of the two substring matches
Recognised(team_raw) ==
    LET team == salary_standardize_team_name(team_raw)
    IN  team \notin {NONE, ""} /\ (team \in Range(VALID_TEAM_NAMES) \/ HarderMatch(team) # NONE)

PositiveAmount(payroll_raw) ==
    LET payroll == clean_currency(payroll_raw)
    IN  IsInt(payroll) /\ Amount(payroll) > 0

\* no payroll column is identified in the file, or no row of it has a
\* recognised team and a positive payroll
ZeroValidRecords(file) ==
    \/ file = UNREADABLE
    \/ file.rows = <<>>
    \/ \E kept \in {DropEmptyAndHeaderRows(file)} : \E cols \in {InferColumns(kept)} :
          \/ cols[2] = NONE
          \/ \A i \in 1..Len(kept.rows) :
                ~(/\ Recognised(kept.rows[i][ColumnIndex(kept, cols[1])])
                  /\ PositiveAmount(kept.rows[i][ColumnIndex(kept, cols[2])]))

\* C12: when zero valid records survive salary cleaning for a year (no payroll
\* column identified, or no row with a recognised team and positive payroll),
\* process_file reports failure and leaves the file exactly as it was; a file
\* is written only with the non-empty cleaned table of a successful call.
C12_NoRecordsMeansFailureAndNoWrite ==
    [][sl_calls' > sl_calls /\ HardcodedFor(sl_year) = NONE =>
          /\ ZeroValidRecords(sl_file) => sl_result' = <<FALSE, 0>> /\ sl_file' = sl_file
          /\ sl_file' # sl_file =>
                /\ ~ZeroValidRecords(sl_file)
                /\ sl_result' = <<TRUE, Len(sl_file'.rows)>>
                /\ sl_file'.columns = <<"Tm", "Payroll">>
                /\ sl_file'.rows # <<>>]_vars

\* a file of ten rows, none with a recognised team: the call failed and the
\* three scraped columns are still in the file
C12_Witness ==
    /\ sl_year = 2000
    /\ sl_calls = 1
    /\ sl_inferred
    /\ sl_result = <<FALSE, 0>>
    /\ sl_file # UNREADABLE
    /\ Len(sl_file.columns) = 3
    /\ Len(sl_file.rows) = 10
    /\ sl_file.rows[1][ColumnIndex(sl_file, "Team")] = "Springfield Isotopes"

\* the rows of the file, past the header-row filter, that have a positive
\* payroll and a team value that resolves to none of the 30 teams
UnresolvedTeams(file) ==
    UNION {UNION {{salary_standardize_team_name(kept.rows[i][ColumnIndex(kept, cols[1])]) :
                      i \in {k \in 1..Len(kept.rows) :
                                /\ cols[2] # NONE
                                /\ ~IsNa(kept.rows[k][ColumnIndex(kept, cols[1])])
                                /\ ~Recognised(kept.rows[k][ColumnIndex(kept, cols[1])])
                                /\ PositiveAmount(kept.rows[k][ColumnIndex(kept, cols[2])])}} :
                  cols \in {InferColumns(kept)}} :
           kept \in {DropEmptyAndHeaderRows(file)}}

\* C14: a row whose team value cannot be resolved to a canonical team is not
\* dropped from the cleaned salary records: it is kept with its team value
\* passed through, whatever the length of the value.
C14_UnresolvedRowsAreKept ==
    [][sl_calls' > sl_calls /\ HardcodedFor(sl_year) = NONE /\ sl_file # UNREADABLE /\ sl_result'[1] =>
          UnresolvedTeams(sl_file) \subseteq Range(TeamsOf(sl_file'))]_vars

\* str() of an int greater than 0
IsPositiveIntString(p) == p # "" /\ AllDigits(p) /\ Head(p) # "0"

\* C16: every record in the output of salary cleaning, on the heuristic path
\* and on the override path, has a team that is one of the 30 canonical names
\* and an integer payroll greater than 0.
C16_RecordsHaveCanonicalTeamAndPositivePayroll ==
    Returned /\ sl_result[1] =>
        /\ sl_file.columns = <<"Tm", "Payroll">>
        /\ \A i \in 1..Len(sl_file.rows) :
              /\ sl_file.rows[i][1] \in Range(VALID_TEAM_NAMES)
              /\ IsPositiveIntString(sl_file.rows[i][2])

\* the heuristic path on ten teams followed by four rows without a positive
\* payroll: the ten are written, Cleveland Indians under its canonical name
C16_Witness ==
    /\ sl_year = 2000
    /\ sl_calls = 1
    /\ sl_result = <<TRUE, 10>>
    /\ Range(TeamsOf(sl_file)) = {salary_standardize_team_name(SALARY_ROWS[i][1]) : i \in 1..10}
    /\ sl_file.rows[8] = <<"Cleveland Guardians", "104000000">>

\* C29: salary cleaning is idempotent on its own output: for a year other
\* than 1998 / 1999, process_file applied to the file an earlier successful
\* call wrote succeeds and leaves the same set of (team, payroll) records,
\* for outputs of any size.
C29_CleaningItsOwnOutputChangesNothing ==
    [][(/\ HardcodedFor(sl_year) = NONE
        /\ sl_calls > 0
        /\ sl_calls' = sl_calls + 1
        /\ sl_result[1]) =>
            /\ sl_result'[1]
            /\ Range(sl_file'.rows) = Range(sl_file.rows)]_vars

\* C3: the records salary cleaning writes for a year hold at most one record
\* for each canonical team.
C3_AtMostOneRecordPerTeam ==
    Returned /\ sl_result[1] =>
        \A i, k \in 1..Len(sl_file.rows) : sl_file.rows[i][1] = sl_file.rows[k][1] => i = k

(***************************************************************************)
(* BaseballScraper.clean_dataframe.  A scraped table is its header and its *)
(* rows.  A column of the header is the tuple of its level labels: one     *)
(* label for a flat header, the tuple of a MultiIndex otherwise.  The      *)
(* first column holds text or NaN; the labels of a header are distinct.    *)
(***************************************************************************)
ScrapedTable(multi, columns, rows) == [multi |-> multi, columns |-> columns, rows |-> rows]

\* ' '.join(parts)
RECURSIVE JoinBlank(_)
JoinBlank(parts) ==
    IF parts = <<>> THEN ""
    ELSE IF Len(parts) = 1 THEN parts[1]
    ELSE parts[1] \o " " \o JoinBlank(Tail(parts))

\* lines 285-286: the labels of a MultiIndex are joined and stripped
FlattenColumns(df) ==
    IF df.multi
    THEN [j \in 1..Len(df.columns) |-> Strip(JoinBlank(df.columns[j]))]
    ELSE [j \in 1..Len(df.columns) |-> df.columns[j][1]]

AVERAGE_PATTERN == <<"Avg", "Average", "League">>

\* a slip: the pattern is searched in the letter case it is written in
SearchAnyCase_exact(pats, text) == AnyIn(pats, text)

\* re.search of 'a|b|c' with IGNORECASE
SearchAnyCase(pats, text) ==
    \E i \in 1..Len(pats) : Contains(Lower(text), Lower(pats[i]))

\* lines 288-296: without the rows that repeat the header, then without the
\* rows whose first cell matches 'Avg|Average|League'
scraper_clean_dataframe(df) ==
    IF df = None THEN None
    ELSE LET columns == FlattenColumns(df)
             no_repeats == SelectSeq(df.rows, LAMBDA row : row[1] # columns[1])
         IN  DataFrame(columns,
                       SelectSeq(no_repeats, LAMBDA row :
                           ~SearchAnyCase(AVERAGE_PATTERN, StrOfCell(row[1]))))

MaxScrapedRows == 3
FIRST_CELLS == <<"Tm", "Boston Red Sox", "League Average", "Lg Avg", "LEAGUE TOTAL", NaN, "Team Tm">>
SCRAPED_HEADERS ==
    <<[multi |-> FALSE, columns |-> <<<<"Tm">>, <<"W">>>>],
      [multi |-> TRUE, columns |-> <<<<"", "Tm">>, <<"Batting", "W">>>>],
      [multi |-> TRUE, columns |-> <<<<"Team", "Tm">>, <<"Batting", "W">>>>]>>

\* the tables of up to MaxScrapedRows rows; the second cell of a row is its
\* position in the table
ScrapedTables ==
    {ScrapedTable(h.multi, h.columns, [i \in 1..Len(cells) |-> <<cells[i], StrOfInt(i)>>]) :
        h \in Range(SCRAPED_HEADERS), cells \in SeqsUpTo(Range(FIRST_CELLS), MaxScrapedRows)}
    \cup {None}

\* lines 271-298
CleanScrapedDataframe ==
    /\ cl_pc = "call"
    /\ cl_out' = scraper_clean_dataframe(cl_df)
    /\ cl_pc' = "returned"
    /\ UNCHANGED <<cl_df, clOthers>>

ScraperCleanNext == CleanScrapedDataframe

\* the first cell of the row, as text, holds one of the words in some letter case
HasAverageMarker(row) ==
    \E word \in {"avg", "average", "league"} : Contains(Lower(StrOfCell(row[1])), word)

\* C20: after BaseballScraper.clean_dataframe no remaining row has a first
\* cell equal to the first header label, none has a first cell whose text
\* contains 'avg', 'average' or 'league' in any letter case, every other row
\* of the input is kept, in its original order, and every row has the columns
\* of the flattened header.
C20_HeaderRepeatsAndAveragesAreDropped ==
    cl_pc = "returned" /\ cl_df # None =>
        LET label == cl_out.columns[1]
        IN  /\ cl_out.columns = FlattenColumns(cl_df)
            /\ \A i \in 1..Len(cl_out.rows) :
                   /\ cl_out.rows[i][1] # label
                   /\ ~HasAverageMarker(cl_out.rows[i])
                   /\ Len(cl_out.rows[i]) = Len(cl_out.columns)
            /\ cl_out.rows =
                   SelectSeq(cl_df.rows, LAMBDA row : row[1] # label /\ ~HasAverageMarker(row))

\* a table under a two-level header, flattened to "Tm", lost its repeated
\* header and its upper-case league row and kept its third row
C20_Witness ==
    /\ cl_pc = "returned"
    /\ cl_df # None
    /\ cl_df.multi
    /\ cl_out.columns[1] = "Tm"
    /\ Len(cl_df.rows) = MaxScrapedRows
    /\ \E i \in 1..Len(cl_df.rows) : cl_df.rows[i][1] = "Tm"
    /\ \E i \in 1..Len(cl_df.rows) : cl_df.rows[i][1] = "LEAGUE TOTAL"
    /\ Len(cl_out.rows) = 1

(***************************************************************************)
(* BaseballDataCleaner.clean_dataframe                                     *)
(***************************************************************************)
team_name_columns == <<"Tm", "Team", "team", "Name">>

\* lines 266-293: the cells of a team name column go through
\* standardize_team_name, the other cells through standardize_cell_value;
\* lines 296-309: every header goes through standardize_cell_value
data_clean_dataframe(df) ==
    DataFrame([j \in 1..Len(df.columns) |-> standardize_cell_value(df.columns[j])],
              [i \in 1..Len(df.rows) |->
                  [j \in 1..Len(df.columns) |->
                      IF df.columns[j] \in Range(team_name_columns)
                      THEN data_standardize_team_name(df.rows[i][j])
                      ELSE standardize_cell_value(df.rows[i][j])]])

MaxDataRows == 1
DATA_HEADERS == {<<"Tm", "W">>, <<"Name", "OAK">>, <<"Notes", "FLA">>}
DATA_CELLS == {"OAK", "FLA", "Oakland Athletics", "OAK4.0", " oak ", "traded to MON", NaN}

DataTables ==
    {DataFrame(h, rows) : h \in DATA_HEADERS,
                          rows \in SeqsUpTo(DATA_CELLS \X DATA_CELLS, MaxDataRows)}

\* lines 249-312
DataCleanDataframe ==
    /\ dc_pc = "call"
    /\ dc_out' = data_clean_dataframe(dc_df)
    /\ dc_pc' = "returned"
    /\ UNCHANGED <<dc_df, dcOthers>>

DataCleanNext == DataCleanDataframe

\* the embedded-value path finds nothing to replace in the cell
NothingEmbedded(c) ==
    /\ ~ContainsKeyOf(c, NAME_MAPPINGS)
    /\ \A k \in Keys(ABBREVIATION_MAPPINGS) : \A i \in 1..Len(c) : ~AbbrMatchesAt(c, i, k)

\* C21: a value of a dedicated identity column (Tm / Team / team / Name) that
\* holds a historical abbreviation is replaced by the canonical abbreviation,
\* a header that is a historical abbreviation is replaced likewise, and a
\* cell of another column in which the embedded-value path finds nothing is
\* left as it is.
C21_IdentityColumnAbbreviationsAreNormalized ==
    dc_pc = "returned" =>
        \A j \in 1..Len(dc_df.columns) :
            /\ dc_df.columns[j] \in Keys(ABBREVIATION_MAPPINGS) =>
                   dc_out.columns[j] = Lookup(ABBREVIATION_MAPPINGS, dc_df.columns[j])
            /\ \A i \in 1..Len(dc_df.rows) :
                   LET c == dc_df.rows[i][j]
                   IN  IF dc_df.columns[j] \in Range(team_name_columns)
                       THEN c \in Keys(ABBREVIATION_MAPPINGS) =>
                               dc_out.rows[i][j] = Lookup(ABBREVIATION_MAPPINGS, c)
                       ELSE (~IsNa(c) /\ NothingEmbedded(c)) => dc_out.rows[i][j] = c

\* a run exercises one operation; the state of the others stays idle
Only(run, op, active, idle) == IF run = op THEN active ELSE {idle}

InitOf(run) ==
    /\ cur_pc \in Only(run, "currency", {"call"}, IDLE)
    /\ cur_in \in Only(run, "currency", CurrencyInputs, IDLE)
    /\ cur_out = None
    /\ cur_prev = None
    /\ nm_in \in Only(run, "names", NameInputs, IDLE)
    /\ nm_salary \in Only(run, "names", {PENDING}, IDLE)
    /\ nm_data \in Only(run, "names", {PENDING}, IDLE)
    /\ cell_in \in Only(run, "cell", CellInputs, IDLE)
    /\ cell_out \in Only(run, "cell", {PENDING}, IDLE)
    /\ tb_page \in IF run = "tables" THEN Pages
                   ELSE IF run = "year" THEN YearPages
                   ELSE {[visible |-> <<>>, comments |-> <<>>]}
    /\ tb_timeout = DEFAULT_TIMEOUT
    /\ tb_pc \in Only(run, "tables", {"call"}, IDLE)
    /\ tb_elapsed = 0
    /\ tb_i = 0
    /\ tb_count = 0
    /\ tb_tables = EmptyDict
    /\ tb_result = EmptyDict
    /\ yr_max_time = MAX_TIME_PER_YEAR
    /\ yr_pc \in Only(run, "year", {"call"}, IDLE)
    /\ yr_elapsed = 0
    /\ yr_k = 0
    /\ yr_files = <<>>
    /\ yr_result = PENDING
    /\ mu_years \in Only(run, "multi", YearLists, <<>>)
    /\ mu_pc \in Only(run, "multi", {"loop"}, IDLE)
    /\ mu_i = 1
    /\ mu_all_results = EmptyDict
    /\ mu_failed_years = <<>>
    /\ mu_driver \in Only(run, "multi", {"live", "none"}, "none")
    /\ mu_interrupts = 0
    /\ mu_int_at = 0
    /\ mu_snapshot = EmptyDict
    /\ mu_started = 0
    /\ mu_raised = {}
    /\ mu_reset_failed = FALSE
    /\ pay_df \in IF run = "payroll" THEN PayrollTables
                  ELSE IF run = "team_column" THEN TeamTables
                  ELSE {DataFrame(<<>>, <<>>)}
    /\ pay_team_col \in IF run \in {"payroll", "team_column"} THEN {PENDING} ELSE {IDLE}
    /\ pay_out \in Only(run, "payroll", {PENDING}, IDLE)
    /\ sl_year \in Only(run, "salary", SalaryYears, 0)
    /\ sl_file \in Only(run, "salary", SalaryFiles, DataFrame(<<>>, <<>>))
    /\ sl_calls = 0
    /\ sl_result = PENDING
    /\ sl_inferred = FALSE
    /\ cl_df \in Only(run, "scraper_clean", ScrapedTables, None)
    /\ cl_pc \in Only(run, "scraper_clean", {"call"}, IDLE)
    /\ cl_out = None
    /\ dc_df \in Only(run, "data_clean", DataTables, DataFrame(<<>>, <<>>))
    /\ dc_pc \in Only(run, "data_clean", {"call"}, IDLE)
    /\ dc_out = DataFrame(<<>>, <<>>)

SpecCurrency == InitOf("currency") /\ [][CurrencyNext]_vars

SpecNames == InitOf("names") /\ [][NamesNext]_vars

SpecCell == InitOf("cell") /\ [][CellNext]_vars

SpecTables == InitOf("tables") /\ [][TablesNext]_vars

SpecYear == InitOf("year") /\ [][YearNext]_vars

SpecMulti == InitOf("multi") /\ [][MultiNext]_vars

SpecPayroll == InitOf("payroll") /\ [][PayrollNext]_vars

SpecTeamColumn == InitOf("team_column") /\ [][TeamColumnNext]_vars

SpecSalary == InitOf("salary") /\ [][SalaryNext]_vars

SpecScraperClean == InitOf("scraper_clean") /\ [][ScraperCleanNext]_vars

SpecDataClean == InitOf("data_clean") /\ [][DataCleanNext]_vars

=============================================================================
